---- MODULE Spec2Model ----
(***************************************************************************)
(* Model of the finit simulation engine (src/engine): Run, the per-tick    *)
(* phases of Simulator.step, the class queues, the service pool and the    *)
(* recorded trace (snapshots and events).                                  *)
(*                                                                         *)
(* A *Token is modelled by its position in s.tokens (1-based): tokens are  *)
(* only ever appended to s.tokens, so the position identifies the object   *)
(* the queues and the service pool point to.                               *)
(***************************************************************************)
EXTENDS Integers, Sequences, FiniteSets, TLC

\* ------------------------------------------------------------- constants

ScenarioID == "canonical_v1"
EngineVersion == "0.1.0"
TickDurationMs == 250

ClassAnon == "ANON"
ClassFree == "FREE"
ClassPaid == "PAID"

StateQueued == "queued"
StateProcessing == "processing"
StateDone == "done"
StateRejected == "rejected"

StageQueue == "queue"
StageService == "service"
StageDone == "done"
StageRejected == "rejected"

EventQueue == "QUEUE"
EventSchedule == "SCHEDULE"
EventComplete == "COMPLETE"
EventReject == "REJECT"

ReasonQueueAdmission == "QUEUE_ADMISSION"
ReasonPrioritySchedule == "PRIORITY_SCHEDULE"
ReasonServiceComplete == "SERVICE_COMPLETE"
ReasonRejectOverload == "REJECT_OVERLOAD"

\* The fields Run gives the Simulator it constructs.
capacity == 3
serviceTime == 1
rejectThreshold == 12

\* ---------------------------------------------------------------- bounds

\* Seeds 0 .. MaxSeed are tried as cfg.Seed.
MaxSeed == 31

\* The scenario's time scale. The canonical scenario runs 240 ticks and its
\* arrival rate steps at ticks 110, 150, 180 and 210, with the class override
\* in force over ticks 150..190; the first rejection cannot happen before
\* tick 159. The model keeps the shape of the scenario (the same rates in the
\* same order, the same capacity, service time and rejection threshold) on a
\* shorter time axis, so that every phase of it, overload and drain
\* included, is explored with traces of a few hundred steps.
TickCount == 34      \* ticks per run                      (source: 240)
RateStep1 == 2       \* first tick with 2 arrivals          (source: 110)
RateStep2 == 4       \* first tick with 4 arrivals          (source: 150)
RateStep3 == 20      \* first tick with 3 arrivals          (source: 180)
RateStep4 == 24      \* first tick with 1 arrival again     (source: 210)
OverrideFrom == 4    \* first tick of the class override    (source: 150)
OverrideTo == 21     \* last tick of the class override     (source: 190)

\* ----------------------------------------------------------------- state

VARIABLES
    config,       \* the caller's Config, passed to Run by value
    history,      \* what the caller's earlier calls of Run were given and returned
    replayed,     \* the caller's calls of ReplayID: arguments and identifier
    parked,       \* the other invocation of Run while this one executes, or NoRun
    artifact,     \* the Artifact Run returned; Artifact{} before that
    cfg,          \* Run's argument: [ScenarioID, Seed]
    pc,           \* position in Run / Simulator.step
    tick,         \* Run's loop variable
    rng,          \* state of s.rng
    nextID,       \* s.nextID
    tokens,       \* s.tokens: the Token objects, in creation order
    paidQueue,    \* s.paidQueue: token pointers
    freeQueue,    \* s.freeQueue
    anonQueue,    \* s.anonQueue
    inService,    \* s.inService
    snapshots,    \* s.snapshots
    events,       \* s.events
    classes,      \* arrivals' local: the classes still to be admitted this tick
    result,       \* what Run returned: "none" (still running), "error" or "artifact"
    flags,        \* cmd/finit: the parsed command line [scenario_id, seed, out]
    exitCode,     \* cmd/finit: the exit status, meaningful once pc = "exited"
    stderr,       \* cmd/finit: the lines written to os.Stderr
    stdout,       \* cmd/finit: the lines written to os.Stdout
    dirs,         \* the file system: the directories that exist besides "."
    files,        \* the file system: the files that exist, [path, complete, artifact]
    baselineArtifact,  \* ui: useArtifactSlots' state
    pressureArtifact,
    baselineError,
    pressureError,
    activeSlot,
    selectedTokenId,   \* ui: App's state
    inspectorEnabled,
    currentTick,       \* ui: usePlayback's state
    isPlaying,
    reading,      \* ui: the file reads (file.text()) that have not resolved yet
    chosen        \* ui: how many files the user has chosen so far

vars == <<config, history, replayed, parked, artifact, cfg, pc, tick, rng, nextID, tokens, paidQueue, freeQueue, anonQueue,
          inService, snapshots, events, classes, result,
          flags, exitCode, stderr, stdout, dirs, files,
          baselineArtifact, pressureArtifact, baselineError, pressureError, activeSlot,
          selectedTokenId, inspectorEnabled, currentTick, isPlaying, reading, chosen>>

\* What belongs to Run's caller.
callerState == <<config, history, replayed, parked>>

\* The command-line program's process and the file system it writes to.
mainState == <<flags, exitCode, stderr, stdout, dirs, files>>

\* The playback UI.
slotState == <<baselineArtifact, pressureArtifact, baselineError, pressureError, activeSlot>>
playbackState == <<currentTick, isPlaying>>
uiState == <<slotState, selectedTokenId, inspectorEnabled, playbackState, reading, chosen>>

\* The programs around the engine.
outside == <<mainState, uiState>>

simState == <<rng, nextID, tokens, paidQueue, freeQueue, anonQueue, inService,
              snapshots, events, classes>>

\* --------------------------------------------------- pseudo-random source

\* s.rng is a seeded deterministic generator: a linear congruential
\* generator over 0 .. RngModulus-1 stands for math/rand's source.
\* Float64() advances the state and returns state / RngModulus, in [0, 1).
RngModulus == 65536

NewSource(seed) == seed % RngModulus

RngNext(r) == (r * 25173 + 13849) % RngModulus

\* pickClass: r < 0.55 -> ANON, r < 0.85 -> FREE, else PAID, for the
\* value r = x / RngModulus that Float64 returned.
pickClass(x) ==
    IF x * 100 < 55 * RngModulus THEN ClassAnon
    ELSE IF x * 100 < 85 * RngModulus THEN ClassFree
    ELSE ClassPaid

\* ---------------------------------------------------------------- tokens

DigitChar == <<"0", "1", "2", "3", "4", "5", "6", "7", "8", "9">>

RECURSIVE Digits(_)
Digits(n) == IF n < 10 THEN <<DigitChar[n + 1]>>
             ELSE Digits(n \div 10) \o <<DigitChar[(n % 10) + 1]>>

RECURSIVE PadZero(_, _)
PadZero(ds, width) == IF Len(ds) >= width THEN ds ELSE PadZero(<<"0">> \o ds, width)

\* fmt.Sprintf("T%04d", n): the decimal digits of n, zero-padded to at
\* least four.
FormatID(n) == <<"T">> \o PadZero(Digits(n), 4)

\* newToken's Token literal: the fields it does not set hold Go's zero values.
newToken(class, t, id) ==
    [ID |-> FormatID(id), Class |-> class, State |-> "", StageID |-> "",
     QueueIndex |-> -1, ServiceRemaining |-> 0, ArrivalTick |-> t]

QueueLength == Len(paidQueue) + Len(freeQueue) + Len(anonQueue)

\* Mutant of shouldReject: nothing is ever rejected.
shouldRejectNever(class) == FALSE

\* Mutant of shouldReject: the threshold itself is still admitted.
shouldRejectAboveThreshold(class) ==
    IF class # ClassAnon THEN FALSE
    ELSE QueueLength > rejectThreshold

\* Mutant of shouldReject: the class test is missing.
shouldRejectAnyClass(class) == QueueLength >= rejectThreshold

\* shouldReject, for a token of class `class`, against the current queues.
shouldReject(class) ==
    IF class # ClassAnon THEN FALSE
    ELSE QueueLength >= rejectThreshold

Event(t, type, reason, tok, stage) ==
    [Tick |-> t, Type |-> type, ReasonCode |-> reason, TokenID |-> tok.ID,
     StageID |-> stage, Class |-> tok.Class]

\* --------------------------------------------------------------- arrivals

\* Mutant of arrivalCount: the rate never falls back to one arrival per
\* tick.
arrivalCountNoRelief(t) ==
    IF t < RateStep1 THEN 1
    ELSE IF t < RateStep2 THEN 2
    ELSE IF t < RateStep3 THEN 4
    ELSE 3

\* Mutant of arrivalCount: nothing arrives in the first tick.
arrivalCountSkipsFirst(t) ==
    IF t = 0 THEN 0
    ELSE IF t < RateStep1 THEN 1
    ELSE IF t < RateStep2 THEN 2
    ELSE IF t < RateStep3 THEN 4
    ELSE IF t < RateStep4 THEN 3
    ELSE 1

\* Mutant of arrivalCount: the rate steps take effect one tick late.
arrivalCountLate(t) ==
    IF t <= RateStep1 THEN 1
    ELSE IF t <= RateStep2 THEN 2
    ELSE IF t <= RateStep3 THEN 4
    ELSE IF t <= RateStep4 THEN 3
    ELSE 1

arrivalCount(t) ==
    IF t < RateStep1 THEN 1
    ELSE IF t < RateStep2 THEN 2
    ELSE IF t < RateStep3 THEN 4
    ELSE IF t < RateStep4 THEN 3
    ELSE 1

\* The rng state after n draws, and the n classes drawn.
RECURSIVE RngAfter(_, _)
RngAfter(r, n) == IF n = 0 THEN r ELSE RngAfter(RngNext(r), n - 1)

RECURSIVE Sample(_, _)
Sample(r, n) ==
    IF n = 0 THEN <<>>
    ELSE <<pickClass(RngNext(r))>> \o Sample(RngNext(r), n - 1)

\* Mutant of arrivalClasses: in the override window the two forced slots
\* are filled first and only the remaining ones are sampled.
arrivalClassesForcedFirst(r, t, count) ==
    IF count >= 2 /\ t >= OverrideFrom /\ t <= OverrideTo
    THEN <<ClassPaid, ClassFree>> \o Sample(r, count - 2)
    ELSE Sample(r, count)

\* arrivalClasses: sample count classes, then force the first two slots
\* in the override window.
arrivalClasses(r, t, count) ==
    LET sampled == Sample(r, count)
    IN  IF count >= 2 /\ t >= OverrideFrom /\ t <= OverrideTo
        THEN [i \in 1..count |->
                 IF i = 1 THEN ClassPaid
                 ELSE IF i = 2 THEN ClassFree
                 ELSE sampled[i]]
        ELSE sampled

\* Mutant of enqueue: FREE tokens fall into the default branch.
enqueueFreeAsDefault(paid, free, anon, class, p) ==
    IF class = ClassPaid
    THEN [paidQueue |-> Append(paid, p), freeQueue |-> free, anonQueue |-> anon]
    ELSE [paidQueue |-> paid, freeQueue |-> free, anonQueue |-> Append(anon, p)]

\* Mutant of enqueue: the token is put at the front of its queue.
enqueueAtFront(paid, free, anon, class, p) ==
    IF class = ClassPaid
    THEN [paidQueue |-> <<p>> \o paid, freeQueue |-> free, anonQueue |-> anon]
    ELSE IF class = ClassFree
    THEN [paidQueue |-> paid, freeQueue |-> <<p>> \o free, anonQueue |-> anon]
    ELSE [paidQueue |-> paid, freeQueue |-> free, anonQueue |-> <<p>> \o anon]

\* Mutant of enqueue: the token pointer is appended twice.
enqueueTwice(paid, free, anon, class, p) ==
    IF class = ClassPaid
    THEN [paidQueue |-> paid \o <<p, p>>, freeQueue |-> free, anonQueue |-> anon]
    ELSE IF class = ClassFree
    THEN [paidQueue |-> paid, freeQueue |-> free \o <<p, p>>, anonQueue |-> anon]
    ELSE [paidQueue |-> paid, freeQueue |-> free, anonQueue |-> anon \o <<p, p>>]

\* enqueue: append token pointer p to the queue of its class.
enqueue(paid, free, anon, class, p) ==
    IF class = ClassPaid
    THEN [paidQueue |-> Append(paid, p), freeQueue |-> free, anonQueue |-> anon]
    ELSE IF class = ClassFree
    THEN [paidQueue |-> paid, freeQueue |-> Append(free, p), anonQueue |-> anon]
    ELSE [paidQueue |-> paid, freeQueue |-> free, anonQueue |-> Append(anon, p)]

\* Mutant of arrivalsIteration: the reject branch lacks its continue and
\* falls through to the queueing code.
arrivalsIterationNoContinue(class, t) ==
    LET tok == newToken(class, t, nextID)
        p == Len(tokens) + 1
        rej == [tok EXCEPT !.State = StateRejected, !.StageID = StageRejected,
                           !.QueueIndex = -1]
        evs == IF shouldReject(class)
               THEN Append(events, Event(t, EventReject, ReasonRejectOverload,
                                         rej, StageRejected))
               ELSE events
        que == [tok EXCEPT !.State = StateQueued, !.StageID = StageQueue,
                           !.QueueIndex = -1]
        q == enqueue(paidQueue, freeQueue, anonQueue, class, p)
    IN  [nextID |-> nextID + 1,
         tokens |-> Append(tokens, que),
         events |-> Append(evs, Event(t, EventQueue, ReasonQueueAdmission,
                                      que, StageQueue)),
         paidQueue |-> q.paidQueue, freeQueue |-> q.freeQueue,
         anonQueue |-> q.anonQueue]

\* The body of arrivals' loop for one class: newToken, then reject (and
\* continue) or queue. p is the new token's pointer.
arrivalsIteration(class, t) ==
    LET tok == newToken(class, t, nextID)
        p == Len(tokens) + 1
    IN  IF shouldReject(class)
        THEN LET rej == [tok EXCEPT !.State = StateRejected,
                                    !.StageID = StageRejected,
                                    !.QueueIndex = -1]
             IN  [nextID |-> nextID + 1,
                  tokens |-> Append(tokens, rej),
                  events |-> Append(events, Event(t, EventReject, ReasonRejectOverload,
                                                  rej, StageRejected)),
                  paidQueue |-> paidQueue, freeQueue |-> freeQueue,
                  anonQueue |-> anonQueue]
        ELSE LET que == [tok EXCEPT !.State = StateQueued,
                                    !.StageID = StageQueue,
                                    !.QueueIndex = -1]
                 q == enqueue(paidQueue, freeQueue, anonQueue, class, p)
             IN  [nextID |-> nextID + 1,
                  tokens |-> Append(tokens, que),
                  events |-> Append(events, Event(t, EventQueue, ReasonQueueAdmission,
                                                  que, StageQueue)),
                  paidQueue |-> q.paidQueue, freeQueue |-> q.freeQueue,
                  anonQueue |-> q.anonQueue]

\* ------------------------------------------------------------ completion

\* Mutant of nextServiceLoop: a token completes only below zero.
RECURSIVE nextServiceLoopBelowZero(_, _, _, _, _)
nextServiceLoopBelowZero(rest, toks, evs, remaining, t) ==
    IF rest = <<>> THEN [tokens |-> toks, events |-> evs, inService |-> remaining]
    ELSE LET p == Head(rest)
             dec == [toks[p] EXCEPT !.ServiceRemaining = @ - 1]
         IN  IF dec.ServiceRemaining < 0
             THEN LET fin == [dec EXCEPT !.State = StateDone, !.StageID = StageDone,
                                         !.QueueIndex = -1]
                  IN  nextServiceLoopBelowZero(Tail(rest), [toks EXCEPT ![p] = fin],
                          Append(evs, Event(t, EventComplete, ReasonServiceComplete,
                                            fin, StageDone)),
                          remaining, t)
             ELSE nextServiceLoopBelowZero(Tail(rest), [toks EXCEPT ![p] = dec], evs,
                                           Append(remaining, p), t)

\* nextService's loop over s.inService: rest is what is still to visit,
\* remaining what has been kept so far.
RECURSIVE nextServiceLoop(_, _, _, _, _)
nextServiceLoop(rest, toks, evs, remaining, t) ==
    IF rest = <<>> THEN [tokens |-> toks, events |-> evs, inService |-> remaining]
    ELSE LET p == Head(rest)
             dec == [toks[p] EXCEPT !.ServiceRemaining = @ - 1]
         IN  IF dec.ServiceRemaining <= 0
             THEN LET fin == [dec EXCEPT !.State = StateDone, !.StageID = StageDone,
                                         !.QueueIndex = -1]
                  IN  nextServiceLoop(Tail(rest), [toks EXCEPT ![p] = fin],
                          Append(evs, Event(t, EventComplete, ReasonServiceComplete,
                                            fin, StageDone)),
                          remaining, t)
             ELSE nextServiceLoop(Tail(rest), [toks EXCEPT ![p] = dec], evs,
                                  Append(remaining, p), t)

nextService(t) == nextServiceLoop(inService, tokens, events, <<>>, t)

\* ------------------------------------------------------------- scheduling

\* Mutant of popNextQueued: the anon branch returns the head without
\* reslicing the queue.
popNextQueuedKeepsAnonHead(paid, free, anon) ==
    IF Len(paid) > 0
    THEN [token |-> Head(paid), paid |-> Tail(paid), free |-> free, anon |-> anon]
    ELSE IF Len(free) > 0
    THEN [token |-> Head(free), paid |-> paid, free |-> Tail(free), anon |-> anon]
    ELSE IF Len(anon) > 0
    THEN [token |-> Head(anon), paid |-> paid, free |-> free, anon |-> anon]
    ELSE [token |-> 0, paid |-> paid, free |-> free, anon |-> anon]

\* Mutant of popNextQueued: the anon queue is looked at before the free one.
popNextQueuedAnonBeforeFree(paid, free, anon) ==
    IF Len(paid) > 0
    THEN [token |-> Head(paid), paid |-> Tail(paid), free |-> free, anon |-> anon]
    ELSE IF Len(anon) > 0
    THEN [token |-> Head(anon), paid |-> paid, free |-> free, anon |-> Tail(anon)]
    ELSE IF Len(free) > 0
    THEN [token |-> Head(free), paid |-> paid, free |-> Tail(free), anon |-> anon]
    ELSE [token |-> 0, paid |-> paid, free |-> free, anon |-> anon]

\* Mutant of popNextQueued: aging, the oldest of the queues' heads goes first.
popNextQueuedOldestFirst(paid, free, anon) ==
    LET heads == {q[1] : q \in {r \in {paid, free, anon} : Len(r) > 0}}
        oldest == CHOOSE p \in heads : \A o \in heads : p <= o
    IN  IF heads = {} THEN [token |-> 0, paid |-> paid, free |-> free, anon |-> anon]
        ELSE [token |-> oldest,
              paid |-> IF Len(paid) > 0 /\ paid[1] = oldest THEN Tail(paid) ELSE paid,
              free |-> IF Len(free) > 0 /\ free[1] = oldest THEN Tail(free) ELSE free,
              anon |-> IF Len(anon) > 0 /\ anon[1] = oldest THEN Tail(anon) ELSE anon]

\* popNextQueued: the head of the first non-empty queue in the order paid,
\* free, anon, and the queues without it; token = 0 stands for nil.
popNextQueued(paid, free, anon) ==
    IF Len(paid) > 0
    THEN [token |-> Head(paid), paid |-> Tail(paid), free |-> free, anon |-> anon]
    ELSE IF Len(free) > 0
    THEN [token |-> Head(free), paid |-> paid, free |-> Tail(free), anon |-> anon]
    ELSE IF Len(anon) > 0
    THEN [token |-> Head(anon), paid |-> paid, free |-> free, anon |-> Tail(anon)]
    ELSE [token |-> 0, paid |-> paid, free |-> free, anon |-> anon]

\* Mutant of capacityAvailable: one slot too many.
capacityAvailableOffByOne(inSvc) == capacity - Len(inSvc) + 1

\* Mutant of capacityAvailable: one slot is held back.
capacityAvailableOneLess(inSvc) == capacity - Len(inSvc) - 1

\* schedule's capacityAvailable on entry.
capacityAvailable(inSvc) == capacity - Len(inSvc)

\* Mutant of scheduleLoop: the scheduled token's StageID is not updated.
RECURSIVE scheduleLoopKeepsStage(_, _, _, _, _, _, _, _)
scheduleLoopKeepsStage(avail, toks, evs, inSvc, paid, free, anon, t) ==
    LET st == [tokens |-> toks, events |-> evs, inService |-> inSvc,
               paidQueue |-> paid, freeQueue |-> free, anonQueue |-> anon]
    IN  IF ~(avail > 0) THEN st
        ELSE LET pop == popNextQueued(paid, free, anon)
             IN  IF pop.token = 0 THEN st
                 ELSE LET p == pop.token
                          run == [toks[p] EXCEPT !.State = StateProcessing,
                                                 !.QueueIndex = -1,
                                                 !.ServiceRemaining = serviceTime]
                      IN  scheduleLoopKeepsStage(avail - 1, [toks EXCEPT ![p] = run],
                              Append(evs, Event(t, EventSchedule, ReasonPrioritySchedule,
                                                run, StageService)),
                              Append(inSvc, p), pop.paid, pop.free, pop.anon, t)

\* schedule's loop.
RECURSIVE scheduleLoop(_, _, _, _, _, _, _, _)
scheduleLoop(avail, toks, evs, inSvc, paid, free, anon, t) ==
    LET st == [tokens |-> toks, events |-> evs, inService |-> inSvc,
               paidQueue |-> paid, freeQueue |-> free, anonQueue |-> anon]
    IN  IF ~(avail > 0) THEN st
        ELSE LET pop == popNextQueued(paid, free, anon)
             IN  IF pop.token = 0 THEN st
                 ELSE LET p == pop.token
                          run == [toks[p] EXCEPT !.State = StateProcessing,
                                                 !.StageID = StageService,
                                                 !.QueueIndex = -1,
                                                 !.ServiceRemaining = serviceTime]
                      IN  scheduleLoop(avail - 1, [toks EXCEPT ![p] = run],
                              Append(evs, Event(t, EventSchedule, ReasonPrioritySchedule,
                                                run, StageService)),
                              Append(inSvc, p), pop.paid, pop.free, pop.anon, t)

schedule(t) ==
    scheduleLoop(capacityAvailable(inService), tokens, events, inService,
                 paidQueue, freeQueue, anonQueue, t)

\* --------------------------------------------------------------- snapshot

\* Mutant of updateQueueIndices: the numbering restarts at 0 in each queue.
updateQueueIndicesPerQueue(toks, paid, free, anon) ==
    LET IndexIn(q, p) == CHOOSE k \in 1..Len(q) : q[k] = p
        In(q, p) == \E k \in 1..Len(q) : q[k] = p
    IN  [p \in 1..Len(toks) |->
            IF In(anon, p) THEN [toks[p] EXCEPT !.QueueIndex = IndexIn(anon, p) - 1]
            ELSE IF In(free, p) THEN [toks[p] EXCEPT !.QueueIndex = IndexIn(free, p) - 1]
            ELSE IF In(paid, p) THEN [toks[p] EXCEPT !.QueueIndex = IndexIn(paid, p) - 1]
            ELSE IF toks[p].State = StateQueued
            THEN [toks[p] EXCEPT !.QueueIndex = -1]
            ELSE toks[p]]

\* updateQueueIndices: reset every queued token to -1, then number the
\* queues' tokens over paid, free, anon (a later write wins).
updateQueueIndices(toks, paid, free, anon) ==
    LET all == paid \o free \o anon
        Last(p) == CHOOSE k \in 1..Len(all) :
                       /\ all[k] = p
                       /\ \A j \in (k + 1)..Len(all) : all[j] # p
    IN  [p \in 1..Len(toks) |->
            IF \E k \in 1..Len(all) : all[k] = p
            THEN [toks[p] EXCEPT !.QueueIndex = Last(p) - 1]
            ELSE IF toks[p].State = StateQueued
            THEN [toks[p] EXCEPT !.QueueIndex = -1]
            ELSE toks[p]]

\* Mutant of snapshotTokens: rejected tokens are left out of the listing.
snapshotTokensSkipRejected(toks) ==
    LET live == SelectSeq([p \in 1..Len(toks) |-> p],
                          LAMBDA p : toks[p].State # StateRejected)
    IN  [k \in 1..Len(live) |->
            [ID |-> toks[live[k]].ID, Class |-> toks[live[k]].Class,
             State |-> toks[live[k]].State, StageID |-> toks[live[k]].StageID,
             QueueIndex |-> toks[live[k]].QueueIndex,
             ServiceRemaining |-> toks[live[k]].ServiceRemaining]]

snapshotTokens(toks) ==
    [p \in 1..Len(toks) |->
        [ID |-> toks[p].ID, Class |-> toks[p].Class, State |-> toks[p].State,
         StageID |-> toks[p].StageID, QueueIndex |-> toks[p].QueueIndex,
         ServiceRemaining |-> toks[p].ServiceRemaining]]

StageState(id, qlen, used, total) ==
    [ID |-> id, QueueLength |-> qlen, CapacityUsed |-> used, CapacityTotal |-> total]

\* Mutant of snapshotStages: the done and rejected stages count their tokens.
snapshotStagesCountsTerminal ==
    << StageState(StageQueue, QueueLength, 0, 0),
       StageState(StageService, 0, Len(inService), capacity),
       StageState(StageDone,
                  Cardinality({p \in 1..Len(tokens) : tokens[p].State = StateDone}), 0, 0),
       StageState(StageRejected,
                  Cardinality({p \in 1..Len(tokens) : tokens[p].State = StateRejected}),
                  0, 0) >>

snapshotStages ==
    << StageState(StageQueue, QueueLength, 0, 0),
       StageState(StageService, 0, Len(inService), capacity),
       StageState(StageDone, 0, 0, 0),
       StageState(StageRejected, 0, 0, 0) >>

\* Mutant of NextPhase: step calls schedule before arrivals.
NextPhaseScheduleFirst(phase) ==
    CASE phase = "nextService" -> "schedule"
      [] phase = "schedule" -> "arrivals"
      [] phase = "arrivals" -> "snapshot"

\* step's order of calls: what follows each phase of a tick.
NextPhase(phase) ==
    CASE phase = "nextService" -> "arrivals"
      [] phase = "arrivals" -> "schedule"
      [] phase = "schedule" -> "snapshot"

\* ---------------------------------------------------------------- ReplayID

\* []byte(s) for the strings that occur as scenario ids and versions.
StringBytes(s) ==
    CASE s = "" -> <<>>
      [] s = "canonical_v1" -> <<99, 97, 110, 111, 110, 105, 99, 97, 108, 95, 118, 49>>
      [] s = "other_v9" -> <<111, 116, 104, 101, 114, 95, 118, 57>>
      [] s = "0.1.0" -> <<48, 46, 49, 46, 48>>
      [] s = "0.2.0" -> <<48, 46, 50, 46, 48>>
      [] s = "a" -> <<97>>
      [] s = "b" -> <<98>>
      [] s = "a|1" -> <<97, 124, 49>>
      [] s = "1|b" -> <<49, 124, 98>>

\* The verb %d of fmt.Sprintf: a minus sign for a negative number, then
\* its decimal digits.
RECURSIVE DecimalBytes(_)
DecimalBytes(n) ==
    IF n < 10 THEN <<48 + n>> ELSE DecimalBytes(n \div 10) \o <<48 + (n % 10)>>

FormatInt(n) == IF n < 0 THEN <<45>> \o DecimalBytes(-n) ELSE DecimalBytes(n)

\* fmt.Sprintf("%s|%d|%s", scenarioID, seed, version), as bytes.
ReplaySource(scenarioID, seed, version) ==
    StringBytes(scenarioID) \o <<124>> \o FormatInt(seed) \o <<124>>
        \o StringBytes(version)
\* ---------------------------------------------------------------- sha256

\* A 32-bit word is a pair <<high half, low half>> of 16-bit numbers.
Half == 65536

RECURSIVE Pow2(_)
Pow2(n) == IF n = 0 THEN 1 ELSE 2 * Pow2(n - 1)

\* Bitwise functions of three 16-bit numbers, bit by bit: x ^ y ^ z,
\* (x & y) ^ (~x & z) and (x & y) ^ (x & z) ^ (y & z).
RECURSIVE Xor3Half(_, _, _)
Xor3Half(x, y, z) ==
    IF x = 0 /\ y = 0 /\ z = 0 THEN 0
    ELSE (((x % 2) + (y % 2) + (z % 2)) % 2) + 2 * Xor3Half(x \div 2, y \div 2, z \div 2)

RECURSIVE ChHalf(_, _, _)
ChHalf(x, y, z) ==
    IF x = 0 /\ z = 0 THEN 0
    ELSE (IF x % 2 = 1 THEN y % 2 ELSE z % 2) + 2 * ChHalf(x \div 2, y \div 2, z \div 2)

RECURSIVE MajHalf(_, _, _)
MajHalf(x, y, z) ==
    IF (x = 0 /\ y = 0) \/ (x = 0 /\ z = 0) \/ (y = 0 /\ z = 0) THEN 0
    ELSE (((x % 2) + (y % 2) + (z % 2)) \div 2) + 2 * MajHalf(x \div 2, y \div 2, z \div 2)

Xor3(a, b, c) == <<Xor3Half(a[1], b[1], c[1]), Xor3Half(a[2], b[2], c[2])>>
Ch(a, b, c) == <<ChHalf(a[1], b[1], c[1]), ChHalf(a[2], b[2], c[2])>>
Maj(a, b, c) == <<MajHalf(a[1], b[1], c[1]), MajHalf(a[2], b[2], c[2])>>

\* Rotation and shift to the right by n bits, 0 < n < 32.
RotR(a, n) ==
    LET hi == IF n >= 16 THEN a[2] ELSE a[1]
        lo == IF n >= 16 THEN a[1] ELSE a[2]
        m == n % 16
    IN  << (hi \div Pow2(m)) + (lo % Pow2(m)) * Pow2(16 - m),
           (lo \div Pow2(m)) + (hi % Pow2(m)) * Pow2(16 - m) >>

ShR(a, n) ==
    << a[1] \div Pow2(n), (a[2] \div Pow2(n)) + (a[1] % Pow2(n)) * Pow2(16 - n) >>

\* Addition modulo 2^32.
Add(a, b) ==
    << (a[1] + b[1] + ((a[2] + b[2]) \div Half)) % Half, (a[2] + b[2]) % Half >>

BigSigma0(a) == Xor3(RotR(a, 2), RotR(a, 13), RotR(a, 22))
BigSigma1(a) == Xor3(RotR(a, 6), RotR(a, 11), RotR(a, 25))
SmallSigma0(a) == Xor3(RotR(a, 7), RotR(a, 18), ShR(a, 3))
SmallSigma1(a) == Xor3(RotR(a, 17), RotR(a, 19), ShR(a, 10))

\* The initial hash value and the round constants.
ShaInit == <<
    <<27145, 58983>>, <<47975, 44677>>, <<15470, 62322>>, <<42319, 62778>>,
    <<20750, 21119>>, <<39685, 26764>>, <<8067, 55723>>, <<23520, 52505>> >>

ShaK == <<
    <<17034, 12184>>, <<28983, 17553>>, <<46528, 64463>>, <<59829, 56229>>,
    <<14678, 49755>>, <<23025, 4593>>, <<37439, 33444>>, <<43804, 24277>>,
    <<55303, 43672>>, <<4739, 23297>>, <<9265, 34238>>, <<21772, 32195>>,
    <<29374, 23924>>, <<32990, 45566>>, <<39900, 1703>>, <<49563, 61812>>,
    <<58523, 27073>>, <<61374, 18310>>, <<4033, 40390>>, <<9228, 41420>>,
    <<11753, 11375>>, <<19060, 33962>>, <<23728, 43484>>, <<30457, 35034>>,
    <<38974, 20818>>, <<43057, 50797>>, <<45059, 10184>>, <<48985, 32711>>,
    <<50912, 3059>>, <<54695, 37191>>, <<1738, 25425>>, <<5161, 10599>>,
    <<10167, 2693>>, <<11803, 8504>>, <<19756, 28156>>, <<21304, 3347>>,
    <<25866, 29524>>, <<30314, 2747>>, <<33218, 51502>>, <<37490, 11397>>,
    <<41663, 59553>>, <<43034, 26187>>, <<49739, 35696>>, <<51052, 20899>>,
    <<53650, 59417>>, <<54937, 1572>>, <<62478, 13701>>, <<4202, 41072>>,
    <<6564, 49430>>, <<7735, 27656>>, <<10056, 30540>>, <<13488, 48309>>,
    <<14620, 3251>>, <<20184, 43594>>, <<23452, 51791>>, <<26670, 28659>>,
    <<29839, 33518>>, <<30885, 25455>>, <<33992, 30740>>, <<36039, 520>>,
    <<37054, 65530>>, <<42064, 27883>>, <<48889, 41975>>, <<50801, 30962>> >>

\* The message with its padding: 0x80, zeros up to 56 modulo 64, and the
\* length in bits as 8 big-endian bytes.
RECURSIVE Zeros(_)
Zeros(n) == IF n = 0 THEN <<>> ELSE <<0>> \o Zeros(n - 1)

Padded(msg) ==
    LET bits == 8 * Len(msg)
    IN  msg \o <<128>> \o Zeros((119 - (Len(msg) % 64)) % 64)
            \o <<0, 0, 0, 0, (bits \div 16777216) % 256, (bits \div 65536) % 256,
                 (bits \div 256) % 256, bits % 256>>

\* The 64 words of a block's message schedule.
RECURSIVE Schedule64(_)
Schedule64(w) ==
    IF Len(w) = 64 THEN w
    ELSE LET t == Len(w) + 1
         IN  Schedule64(Append(w,
                 Add(Add(SmallSigma1(w[t - 2]), w[t - 7]),
                     Add(SmallSigma0(w[t - 15]), w[t - 16]))))

RECURSIVE BlockWords(_, _, _)
BlockWords(bytes, from, w) ==
    IF Len(w) = 16 THEN w
    ELSE BlockWords(bytes, from + 4,
             Append(w, <<bytes[from] * 256 + bytes[from + 1],
                         bytes[from + 2] * 256 + bytes[from + 3]>>))

\* The 64 rounds over a block: s holds the working variables a..h.
RECURSIVE Rounds(_, _, _)
Rounds(s, w, t) ==
    IF t > 64 \/ s = <<>> THEN s
    ELSE LET t1 == Add(Add(Add(s[8], BigSigma1(s[5])),
                           Add(Ch(s[5], s[6], s[7]), ShaK[t])), w[t])
             t2 == Add(BigSigma0(s[1]), Maj(s[1], s[2], s[3]))
         IN  Rounds(<<Add(t1, t2), s[1], s[2], s[3], Add(s[4], t1), s[5], s[6], s[7]>>,
                    w, t + 1)

RECURSIVE Blocks(_, _, _)
Blocks(h, bytes, from) ==
    IF from > Len(bytes) THEN h
    ELSE LET s == Rounds(h, Schedule64(BlockWords(bytes, from, <<>>)), 1)
         IN  Blocks(<<Add(h[1], s[1]), Add(h[2], s[2]), Add(h[3], s[3]), Add(h[4], s[4]),
                      Add(h[5], s[5]), Add(h[6], s[6]), Add(h[7], s[7]), Add(h[8], s[8])>>,
                    bytes, from + 64)

\* sha256.Sum256: the digest's 32 bytes.
RECURSIVE WordBytes(_, _)
WordBytes(h, k) ==
    IF k > Len(h) THEN <<>>
    ELSE <<h[k][1] \div 256, h[k][1] % 256, h[k][2] \div 256, h[k][2] % 256>>
             \o WordBytes(h, k + 1)

Sum256(msg) == WordBytes(Blocks(ShaInit, Padded(msg), 1), 1)

\* hex.EncodeToString: two lower-case hexadecimal digits per byte.
HexDigit(d) ==
    <<"0", "1", "2", "3", "4", "5", "6", "7", "8", "9", "a", "b", "c", "d", "e", "f">>[d + 1]

\* Mutant of EncodeToString: a byte below 16 gives one digit, not two.
RECURSIVE EncodeToStringUnpadded(_)
EncodeToStringUnpadded(bytes) ==
    IF bytes = <<>> THEN <<>>
    ELSE (IF Head(bytes) < 16 THEN <<HexDigit(Head(bytes))>>
          ELSE <<HexDigit(Head(bytes) \div 16), HexDigit(Head(bytes) % 16)>>)
             \o EncodeToStringUnpadded(Tail(bytes))

RECURSIVE EncodeToString(_)
EncodeToString(bytes) ==
    IF bytes = <<>> THEN <<>>
    ELSE <<HexDigit(Head(bytes) \div 16), HexDigit(Head(bytes) % 16)>>
             \o EncodeToString(Tail(bytes))

\* Mutant of ReplayID: the version is left out of the hashed string.
ReplayIDWithoutVersion(scenarioID, seed, version) ==
    EncodeToString(Sum256(StringBytes(scenarioID) \o <<124>> \o FormatInt(seed)))

\* ReplayID: the hexadecimal SHA-256 digest of the formatted triple, a
\* sequence of one-character strings.
ReplayID(scenarioID, seed, version) ==
    EncodeToString(Sum256(ReplaySource(scenarioID, seed, version)))

\* ------------------------------------------------------------------- Run

TotalDurationMs == TickCount * TickDurationMs

\* Mutant of RunMetadata: the total duration is the time of the last tick.
RunMetadataLastTick(c) ==
    [ScenarioID |-> c.ScenarioID, Seed |-> c.Seed, EngineVersion |-> EngineVersion,
     ReplayID |-> ReplayID(c.ScenarioID, c.Seed, EngineVersion),
     TickCount |-> TickCount, TickDurationMs |-> TickDurationMs,
     TotalDurationMs |-> (TickCount - 1) * TickDurationMs]

\* Run's Metadata literal, for its (defaulted) configuration c.
RunMetadata(c) ==
    [ScenarioID |-> c.ScenarioID, Seed |-> c.Seed, EngineVersion |-> EngineVersion,
     ReplayID |-> ReplayID(c.ScenarioID, c.Seed, EngineVersion),
     TickCount |-> TickCount, TickDurationMs |-> TickDurationMs,
     TotalDurationMs |-> TotalDurationMs]

\* Artifact{}: every field holds Go's zero value.
EmptyArtifact ==
    [Metadata |-> [ScenarioID |-> "", Seed |-> 0, EngineVersion |-> "",
                   ReplayID |-> <<>>, TickCount |-> 0, TickDurationMs |-> 0,
                   TotalDurationMs |-> 0],
     Snapshots |-> <<>>, Events |-> <<>>]

\* Mutant of DefaultScenario: every scenario id falls back to the default.
DefaultScenarioAlways(id) == ScenarioID

\* Mutant of DefaultScenario: the empty scenario id is left as it is.
DefaultScenarioNever(id) == id

\* Run's first statement: an empty scenario id stands for the default one.
DefaultScenario(id) == IF id = "" THEN ScenarioID ELSE id

\* ------------------------------------------- the programs around the engine

\* JavaScript's null.
null == [null |-> TRUE]

\* cmd/finit's flags when the command line gives none.
DefaultFlags == [scenario_id |-> ScenarioID, seed |-> 1, out |-> "artifacts/run.json"]

\* The command-line program has not been started; the file system is empty.
mainIdle ==
    /\ flags = DefaultFlags
    /\ exitCode = 0
    /\ stderr = <<>>
    /\ stdout = <<>>
    /\ dirs = {}
    /\ files = {}

\* The UI after its first render: the initial values of every useState.
uiInitial ==
    /\ baselineArtifact = null
    /\ pressureArtifact = null
    /\ baselineError = null
    /\ pressureError = null
    /\ activeSlot = "baseline"
    /\ selectedTokenId = null
    /\ inspectorEnabled = FALSE
    /\ currentTick = 0
    /\ isPlaying = FALSE
    /\ reading = {}
    /\ chosen = 0

\* ---------------------------------------------------------------- actions

\* No second invocation of Run exists.
NoRun == [pc |-> "none"]

Configs == [ScenarioID : {"", ScenarioID, "other_v9"}, Seed : 0..MaxSeed]

Init ==
    /\ config \in Configs
    /\ history = <<>>
    /\ replayed = <<>>
    /\ parked = NoRun
    /\ artifact = EmptyArtifact
    /\ cfg = config
    /\ pc = "Run"
    /\ tick = 0
    /\ rng = 0
    /\ nextID = 0
    /\ tokens = <<>>
    /\ paidQueue = <<>>
    /\ freeQueue = <<>>
    /\ anonQueue = <<>>
    /\ inService = <<>>
    /\ snapshots = <<>>
    /\ events = <<>>
    /\ classes = <<>>
    /\ result = "none"
    /\ mainIdle
    /\ uiInitial

\* Run, up to its loop: default the scenario, refuse an unknown one,
\* construct the Simulator.
RunUnknownScenario ==
    /\ pc = "Run"
    /\ DefaultScenario(cfg.ScenarioID) # ScenarioID
    /\ pc' = "returned"
    /\ result' = "error"
    /\ artifact' = EmptyArtifact
    /\ UNCHANGED <<callerState, outside, cfg, tick, simState>>

\* Mutant of RunConstruct: the random source is created by the first call
\* and shared by the later ones.
RunConstructSharedRng ==
    /\ pc = "Run"
    /\ DefaultScenario(cfg.ScenarioID) = ScenarioID
    /\ cfg' = [cfg EXCEPT !.ScenarioID = DefaultScenario(@)]
    /\ rng' = IF history = <<>> THEN NewSource(cfg.Seed) ELSE rng
    /\ nextID' = 0
    /\ tokens' = <<>>
    /\ paidQueue' = <<>>
    /\ freeQueue' = <<>>
    /\ anonQueue' = <<>>
    /\ inService' = <<>>
    /\ snapshots' = <<>>
    /\ events' = <<>>
    /\ classes' = <<>>
    /\ tick' = 0
    /\ pc' = "loop"
    /\ UNCHANGED <<callerState, outside, artifact, result>>

\* The Simulator literal gives every field it does not name Go's zero value.
RunConstruct ==
    /\ pc = "Run"
    /\ DefaultScenario(cfg.ScenarioID) = ScenarioID
    /\ cfg' = [cfg EXCEPT !.ScenarioID = DefaultScenario(@)]
    /\ rng' = NewSource(cfg.Seed)
    /\ nextID' = 0
    /\ tokens' = <<>>
    /\ paidQueue' = <<>>
    /\ freeQueue' = <<>>
    /\ anonQueue' = <<>>
    /\ inService' = <<>>
    /\ snapshots' = <<>>
    /\ events' = <<>>
    /\ classes' = <<>>
    /\ tick' = 0
    /\ pc' = "loop"
    /\ UNCHANGED <<callerState, outside, artifact, result>>

\* Mutant of LoopEnter: the loop test lets tick = TickCount through.
LoopEnterInclusive ==
    /\ pc = "loop"
    /\ tick <= TickCount
    /\ pc' = "nextService"
    /\ UNCHANGED <<callerState, outside, artifact, cfg, tick, simState, result>>

\* Run's loop test: enter step(tick), or leave the loop.
LoopEnter ==
    /\ pc = "loop"
    /\ tick < TickCount
    /\ pc' = "nextService"
    /\ UNCHANGED <<callerState, outside, artifact, cfg, tick, simState, result>>

\* Mutant of RunReturn: the test of the event list is inverted.
RunReturnInverted ==
    /\ pc = "loop"
    /\ ~(tick < TickCount)
    /\ pc' = "returned"
    /\ LET metadata == RunMetadata(cfg)
       IN  IF Len(events) # 0
           THEN /\ result' = "error"
                /\ artifact' = EmptyArtifact
           ELSE /\ result' = "artifact"
                /\ artifact' = [Metadata |-> metadata, Snapshots |-> snapshots,
                                Events |-> events]
    /\ UNCHANGED <<callerState, outside, cfg, tick, simState>>

\* Run after the loop: fail on an empty event list, else return the artifact.
RunReturn ==
    /\ pc = "loop"
    /\ ~(tick < TickCount)
    /\ pc' = "returned"
    /\ LET metadata == RunMetadata(cfg)
       IN  IF Len(events) = 0
           THEN /\ result' = "error"
                /\ artifact' = EmptyArtifact
           ELSE /\ result' = "artifact"
                /\ artifact' = [Metadata |-> metadata, Snapshots |-> snapshots,
                                Events |-> events]
    /\ UNCHANGED <<callerState, outside, cfg, tick, simState>>

NextService ==
    /\ pc = "nextService"
    /\ LET r == nextService(tick)
       IN  /\ tokens' = r.tokens
           /\ events' = r.events
           /\ inService' = r.inService
    /\ pc' = NextPhase("nextService")
    /\ UNCHANGED <<callerState, outside, artifact, cfg, tick, rng, nextID, paidQueue, freeQueue, anonQueue,
                   snapshots, classes, result>>

\* arrivals, before its loop: count and classes of this tick's arrivals.
ArrivalClasses ==
    /\ pc = "arrivals"
    /\ LET count == arrivalCount(tick)
       IN  /\ classes' = arrivalClasses(rng, tick, count)
           /\ rng' = RngAfter(rng, count)
    /\ pc' = "admit"
    /\ UNCHANGED <<callerState, outside, artifact, cfg, tick, nextID, tokens, paidQueue, freeQueue, anonQueue,
                   inService, snapshots, events, result>>

\* One iteration of arrivals' loop: create the token, reject it or queue it.
Admit ==
    /\ pc = "admit"
    /\ classes # <<>>
    /\ LET r == arrivalsIteration(Head(classes), tick)
       IN  /\ nextID' = r.nextID
           /\ tokens' = r.tokens
           /\ events' = r.events
           /\ paidQueue' = r.paidQueue
           /\ freeQueue' = r.freeQueue
           /\ anonQueue' = r.anonQueue
    /\ classes' = Tail(classes)
    /\ UNCHANGED <<callerState, outside, artifact, cfg, pc, tick, rng, inService, snapshots, result>>

\* arrivals' loop is over: on to schedule.
ArrivalsDone ==
    /\ pc = "admit"
    /\ classes = <<>>
    /\ pc' = NextPhase("arrivals")
    /\ UNCHANGED <<callerState, outside, artifact, cfg, tick, simState, result>>

Schedule ==
    /\ pc = "schedule"
    /\ LET r == schedule(tick)
       IN  /\ tokens' = r.tokens
           /\ events' = r.events
           /\ inService' = r.inService
           /\ paidQueue' = r.paidQueue
           /\ freeQueue' = r.freeQueue
           /\ anonQueue' = r.anonQueue
    /\ pc' = NextPhase("schedule")
    /\ UNCHANGED <<callerState, outside, artifact, cfg, tick, rng, nextID, snapshots, classes, result>>

\* Mutant of Snapshot: the listings of all snapshots share the live tokens
\* instead of holding copies, so each one shows the tokens as they are now.
SnapshotSharesTokens ==
    /\ pc = "snapshot"
    /\ tokens' = updateQueueIndices(tokens, paidQueue, freeQueue, anonQueue)
    /\ snapshots' = Append(
           [i \in 1..Len(snapshots) |->
               [snapshots[i] EXCEPT
                   !.Tokens = SubSeq(snapshotTokens(tokens'), 1,
                                     Len(snapshots[i].Tokens))]],
           [Tick |-> tick, TimeMs |-> tick * TickDurationMs,
            Tokens |-> snapshotTokens(tokens'), Stages |-> snapshotStages])
    /\ tick' = tick + 1
    /\ pc' = "loop"
    /\ UNCHANGED <<callerState, outside, artifact, cfg, rng, nextID, paidQueue, freeQueue, anonQueue, inService,
                   events, classes, result>>

\* The rest of step: updateQueueIndices, then the snapshot; then Run's tick++.
Snapshot ==
    /\ pc = "snapshot"
    /\ tokens' = updateQueueIndices(tokens, paidQueue, freeQueue, anonQueue)
    /\ snapshots' = Append(snapshots,
           [Tick |-> tick, TimeMs |-> tick * TickDurationMs,
            Tokens |-> snapshotTokens(tokens'), Stages |-> snapshotStages])
    /\ tick' = tick + 1
    /\ pc' = "loop"
    /\ UNCHANGED <<callerState, outside, artifact, cfg, rng, nextID, paidQueue, freeQueue, anonQueue, inService,
                   events, classes, result>>

Next ==
    \/ RunUnknownScenario
    \/ RunConstruct
    \/ LoopEnter
    \/ RunReturn
    \/ NextService
    \/ ArrivalClasses
    \/ Admit
    \/ ArrivalsDone
    \/ Schedule
    \/ Snapshot

Spec == Init /\ [][Next]_vars

\* Run is sequential code that nothing suspends: a step that can be taken
\* is taken.
\* Bound of the seeds of the runs whose termination is checked.
MaxSeedFair == 2

InitFair == Init /\ config.Seed <= MaxSeedFair

\* The steps of Run before its return statement.
RunSteps ==
    \/ RunUnknownScenario
    \/ RunConstruct
    \/ LoopEnter
    \/ NextService
    \/ ArrivalClasses
    \/ Admit
    \/ ArrivalsDone
    \/ Schedule
    \/ Snapshot

\* Run's loop condition fails and control passes to the return statement
\* (the step RunReturn takes).
RunLeavesLoop == pc = "loop" /\ ~(tick < TickCount) /\ pc' = "returned"

SpecFair == InitFair /\ [][Next]_vars /\ WF_vars(RunSteps) /\ WF_pc(RunLeavesLoop)

\* ------------------------------------------------------- a second call

\* Bound of the seeds of the runs that are followed by a second call.
MaxSeedRepeat == 5

\* The caller calls Run once more, with the same seed and any scenario id.
\* The Simulator of the call before is garbage: nothing refers to it.
RunAgain ==
    /\ pc = "returned"
    /\ history = <<>>
    /\ history' = <<[Config |-> config, Artifact |-> artifact, Result |-> result]>>
    /\ \E c \in Configs :
           /\ c.Seed = config.Seed
           /\ config' = c
           /\ cfg' = c
    /\ artifact' = EmptyArtifact
    /\ result' = "none"
    /\ pc' = "Run"
    /\ UNCHANGED <<outside, replayed, parked, tick, simState>>

InitRepeat == Init /\ config.Seed <= MaxSeedRepeat

NextRepeat == Next \/ RunAgain

SpecRepeat == InitRepeat /\ [][NextRepeat]_vars

\* ------------------------------------------- two invocations of Run at once

\* Seeds of the call that is executed alone first.
MaxSeedPair == 0

\* What one invocation of Run owns: its argument, its loop variable, the
\* Simulator it constructs (with the random source inside it) and the values
\* it returns.  Run reads and writes nothing else.
Invocation ==
    [config |-> config, cfg |-> cfg, pc |-> pc, tick |-> tick, rng |-> rng,
     nextID |-> nextID, tokens |-> tokens, paidQueue |-> paidQueue,
     freeQueue |-> freeQueue, anonQueue |-> anonQueue, inService |-> inService,
     snapshots |-> snapshots, events |-> events, classes |-> classes,
     artifact |-> artifact, result |-> result]

\* An invocation of Run with c that has not executed a statement yet.
Called(c) ==
    [config |-> c, cfg |-> c, pc |-> "Run", tick |-> 0, rng |-> 0,
     nextID |-> 0, tokens |-> <<>>, paidQueue |-> <<>>,
     freeQueue |-> <<>>, anonQueue |-> <<>>, inService |-> <<>>,
     snapshots |-> <<>>, events |-> <<>>, classes |-> <<>>,
     artifact |-> EmptyArtifact, result |-> "none"]

InitPair == Init /\ config.ScenarioID # "" /\ config.Seed <= MaxSeedPair

\* After a first call has returned, the caller calls Run from two goroutines:
\* once with the same Config again and once with the same or the next seed.
RunTwice ==
    /\ pc = "returned"
    /\ history = <<>>
    /\ parked = NoRun
    /\ history' = <<[Config |-> config, Artifact |-> artifact, Result |-> result]>>
    /\ \E c \in Configs :
           /\ c.ScenarioID = config.ScenarioID
           /\ c.Seed \in {config.Seed, config.Seed + 1}
           /\ parked' = Called(c)
    /\ cfg' = config
    /\ artifact' = EmptyArtifact
    /\ result' = "none"
    /\ pc' = "Run"
    /\ UNCHANGED <<outside, config, replayed, tick, simState>>

\* Mutant of Resume: the random source is a package-level variable that the
\* invocations share.
ResumeSharedSource(r) ==
    /\ config' = r.config
    /\ cfg' = r.cfg
    /\ pc' = r.pc
    /\ tick' = r.tick
    /\ UNCHANGED rng
    /\ nextID' = r.nextID
    /\ tokens' = r.tokens
    /\ paidQueue' = r.paidQueue
    /\ freeQueue' = r.freeQueue
    /\ anonQueue' = r.anonQueue
    /\ inService' = r.inService
    /\ snapshots' = r.snapshots
    /\ events' = r.events
    /\ classes' = r.classes
    /\ artifact' = r.artifact
    /\ result' = r.result

\* The invocation r goes on: cfg, tick and sim are locals of its own call of
\* Run, and the Simulator's fields are reached through sim only.
Resume(r) ==
    /\ config' = r.config
    /\ cfg' = r.cfg
    /\ pc' = r.pc
    /\ tick' = r.tick
    /\ rng' = r.rng
    /\ nextID' = r.nextID
    /\ tokens' = r.tokens
    /\ paidQueue' = r.paidQueue
    /\ freeQueue' = r.freeQueue
    /\ anonQueue' = r.anonQueue
    /\ inService' = r.inService
    /\ snapshots' = r.snapshots
    /\ events' = r.events
    /\ classes' = r.classes
    /\ artifact' = r.artifact
    /\ result' = r.result

\* The scheduler takes the processor from one invocation, before its first
\* statement, between two of its ticks or after its return, and gives it to
\* the other one.
Yield ==
    /\ parked # NoRun
    /\ pc \in {"Run", "loop", "returned"}
    /\ parked.pc # "returned"
    /\ parked' = Invocation
    /\ Resume(parked)
    /\ UNCHANGED <<outside, history, replayed>>

NextPair == Next \/ RunTwice \/ Yield

SpecPair == InitPair /\ [][NextPair]_vars

\* ------------------------------------------------------ calls of ReplayID

\* The arguments ReplayID is called with.
ReplayArgs ==
    [scenarioID : {ScenarioID, "", "other_v9"},
     seed : {-1, 0, 12345},
     version : {EngineVersion, "0.2.0", ""}]

\* The number of components in which two argument triples differ.
Differences(a, b) ==
    (IF a.scenarioID = b.scenarioID THEN 0 ELSE 1)
        + (IF a.seed = b.seed THEN 0 ELSE 1)
        + (IF a.version = b.version THEN 0 ELSE 1)

ReplayCall(a) == [args |-> a, id |-> ReplayID(a.scenarioID, a.seed, a.version)]

InitReplayID ==
    /\ config = [ScenarioID |-> ScenarioID, Seed |-> 0]
    /\ history = <<>>
    /\ replayed = <<>>
    /\ parked = NoRun
    /\ artifact = EmptyArtifact
    /\ cfg = config
    /\ pc = "ReplayID"
    /\ tick = 0
    /\ rng = 0
    /\ nextID = 0
    /\ tokens = <<>>
    /\ paidQueue = <<>>
    /\ freeQueue = <<>>
    /\ anonQueue = <<>>
    /\ inService = <<>>
    /\ snapshots = <<>>
    /\ events = <<>>
    /\ classes = <<>>
    /\ result = "none"
    /\ mainIdle
    /\ uiInitial

\* A first call of ReplayID, with any arguments.
ReplayIDFirst ==
    /\ pc = "ReplayID"
    /\ \E a \in ReplayArgs : replayed' = <<ReplayCall(a)>>
    /\ pc' = "ReplayIDAgain"
    /\ UNCHANGED <<outside, config, history, parked, artifact, cfg, tick, simState, result>>

\* A second call, with arguments that differ from the first call's in at
\* most one component.
ReplayIDSecond ==
    /\ pc = "ReplayIDAgain"
    /\ \E a \in ReplayArgs :
           /\ Differences(a, replayed[1].args) <= 1
           /\ replayed' = Append(replayed, ReplayCall(a))
    /\ pc' = "compared"
    /\ UNCHANGED <<outside, config, history, parked, artifact, cfg, tick, simState, result>>

NextReplayID == ReplayIDFirst \/ ReplayIDSecond

SpecReplayID == InitReplayID /\ [][NextReplayID]_vars

\* Arguments for ReplayID among which are strings that contain the
\* separator of the hashed string.
ReplayPipeArgs ==
    [scenarioID : {ScenarioID, "a", "a|1"},
     seed : {1, 2},
     version : {"b", "1|b"}]

\* Two calls of ReplayID with any two of these triples.
ReplayIDPipeFirst ==
    /\ pc = "ReplayID"
    /\ \E a \in ReplayPipeArgs : replayed' = <<ReplayCall(a)>>
    /\ pc' = "ReplayIDAgain"
    /\ UNCHANGED <<outside, config, history, parked, artifact, cfg, tick, simState, result>>

ReplayIDPipeSecond ==
    /\ pc = "ReplayIDAgain"
    /\ \E a \in ReplayPipeArgs : replayed' = Append(replayed, ReplayCall(a))
    /\ pc' = "compared"
    /\ UNCHANGED <<outside, config, history, parked, artifact, cfg, tick, simState, result>>

NextReplayPipes == ReplayIDPipeFirst \/ ReplayIDPipeSecond

SpecReplayPipes == InitReplayID /\ [][NextReplayPipes]_vars

\* ------------------------------------------------- cmd/finit: the program

\* Bound of the seeds given on the command line (1 is the flag's default).
MaxSeedMain == 2

\* The values tried for the -out flag: a bare file name, the flag's default
\* and a path two directories deep.
OutPaths == {"run.json", "artifacts/run.json", "out/a/run.json"}

\* The command lines tried.
CommandLines ==
    [scenario_id : {ScenarioID, "", "other_v9"}, seed : 1..MaxSeedMain, out : OutPaths]

\* filepath.Dir on the paths tried.
Dir(path) ==
    CASE path = "run.json" -> "."
      [] path = "artifacts/run.json" -> "artifacts"
      [] path = "out/a/run.json" -> "out/a"

\* The directories os.MkdirAll creates for dir, outermost first.
MkdirAllPath(dir) ==
    CASE dir = "artifacts" -> <<"artifacts">>
      [] dir = "out/a" -> <<"out", "out/a">>

\* The first n elements of a sequence, as a set.
FirstOf(seq, n) == {seq[i] : i \in 1..n}

InitMain ==
    /\ flags \in CommandLines
    /\ config = [ScenarioID |-> "", Seed |-> 0]
    /\ history = <<>>
    /\ replayed = <<>>
    /\ parked = NoRun
    /\ artifact = EmptyArtifact
    /\ cfg = config
    /\ pc = "main"
    /\ tick = 0
    /\ rng = 0
    /\ nextID = 0
    /\ tokens = <<>>
    /\ paidQueue = <<>>
    /\ freeQueue = <<>>
    /\ anonQueue = <<>>
    /\ inService = <<>>
    /\ snapshots = <<>>
    /\ events = <<>>
    /\ classes = <<>>
    /\ result = "none"
    /\ exitCode = 0
    /\ stderr = <<>>
    /\ stdout = <<>>
    /\ dirs = {}
    /\ files = {}
    /\ uiInitial

\* main, lines 13-21: the flags are parsed and Run is called with them.
mainRun ==
    /\ pc = "main"
    /\ config' = [ScenarioID |-> flags.scenario_id, Seed |-> flags.seed]
    /\ cfg' = config'
    /\ pc' = "Run"
    /\ UNCHANGED <<history, replayed, parked, artifact, tick, simState, result, outside>>

\* main, lines 22-25: Run returned an error.
mainRunFailed ==
    /\ pc = "returned"
    /\ result = "error"
    /\ stderr' = Append(stderr, "Run")
    /\ exitCode' = 1
    /\ pc' = "exited"
    /\ UNCHANGED <<callerState, artifact, cfg, tick, simState, result,
                   flags, stdout, dirs, files, uiState>>

\* main, lines 27-33: the output directory is created unless it is ".".
\* os.MkdirAll succeeds, or fails having created none or some of the
\* missing directories.
mainMkdirAll ==
    /\ pc = "returned"
    /\ result = "artifact"
    /\ LET dir == Dir(flags.out)
       IN  IF dir = "."
           THEN /\ pc' = "WriteArtifact"
                /\ UNCHANGED <<exitCode, stderr, dirs>>
           ELSE \/ /\ dirs' = dirs \cup FirstOf(MkdirAllPath(dir), Len(MkdirAllPath(dir)))
                   /\ pc' = "WriteArtifact"
                   /\ UNCHANGED <<exitCode, stderr>>
                \/ \E n \in 0..(Len(MkdirAllPath(dir)) - 1) :
                       /\ dirs' = dirs \cup FirstOf(MkdirAllPath(dir), n)
                       /\ stderr' = Append(stderr, "MkdirAll")
                       /\ exitCode' = 1
                       /\ pc' = "exited"
    /\ UNCHANGED <<callerState, artifact, cfg, tick, simState, result,
                   flags, stdout, files, uiState>>

\* Mutant of mainWriteArtifact: the error of WriteArtifact is ignored.
mainWriteArtifactUnchecked ==
    /\ pc = "WriteArtifact"
    /\ \/ files' = {f \in files : f.path # flags.out}
                       \cup {[path |-> flags.out, complete |-> TRUE, artifact |-> artifact]}
       \/ files' = files
       \/ files' = {f \in files : f.path # flags.out}
                       \cup {[path |-> flags.out, complete |-> FALSE, artifact |-> artifact]}
    /\ stdout' = Append(stdout, [wrote |-> flags.out, replay_id |-> artifact.Metadata.ReplayID])
    /\ exitCode' = 0
    /\ pc' = "exited"
    /\ UNCHANGED <<callerState, artifact, cfg, tick, simState, result,
                   flags, stderr, dirs, uiState>>

\* main, lines 35-41, with WriteArtifact (artifact.go 17-24): the artifact
\* is encoded and written with os.WriteFile, which succeeds, or fails
\* without having created the file, or fails having written part of it.
\* After a success main prints the path and the replay id and returns.
mainWriteArtifact ==
    /\ pc = "WriteArtifact"
    /\ \/ /\ files' = {f \in files : f.path # flags.out}
                          \cup {[path |-> flags.out, complete |-> TRUE, artifact |-> artifact]}
          /\ stdout' = Append(stdout, [wrote |-> flags.out,
                                       replay_id |-> artifact.Metadata.ReplayID])
          /\ exitCode' = 0
          /\ UNCHANGED stderr
       \/ /\ \/ files' = files
             \/ files' = {f \in files : f.path # flags.out}
                             \cup {[path |-> flags.out, complete |-> FALSE,
                                    artifact |-> artifact]}
          /\ stderr' = Append(stderr, "WriteArtifact")
          /\ exitCode' = 1
          /\ UNCHANGED stdout
    /\ pc' = "exited"
    /\ UNCHANGED <<callerState, artifact, cfg, tick, simState, result,
                   flags, dirs, uiState>>

NextMain ==
    \/ mainRun
    \/ Next
    \/ mainRunFailed
    \/ mainMkdirAll
    \/ mainWriteArtifact

SpecMain == InitMain /\ [][NextMain]_vars

\* ------------------------------------------------------- ui: JSON values

\* What App compares an artifact's engine_version with.
UI_ENGINE_VERSION == "0.1.0"

\* A string held where the code's type is string | null.
String(s) == [string |-> s]

\* JavaScript values as JSON.parse returns them, with their type.
undefined == [type |-> "undefined"]
Num(n) == [type |-> "number", value |-> n]
Str(s) == [type |-> "string", value |-> s]
Arr(items) == [type |-> "array", items |-> items]
Obj(fields) == [type |-> "object", fields |-> fields]

\* Number.NaN, which parseArtifact stores for a number that is missing.
NaN == [nan |-> TRUE]

\* typeof value === 'object' && value !== null: true of arrays too.
isRecord(value) == value.type \in {"object", "array"}
isNumber(value) == value.type = "number"
isString(value) == value.type = "string"
isArray(value) == value.type = "array"
isTokenClass(value) == isString(value) /\ value.value \in {"ANON", "FREE", "PAID"}

\* value[key] of a value that passed isRecord.
Get(value, key) ==
    IF value.type = "object" /\ key \in DOMAIN value.fields
    THEN value.fields[key]
    ELSE undefined

\* ------------------------------------------------------ ui: parseArtifact

tokenError(token) ==
    IF ~isRecord(token) THEN "Token entry is invalid."
    ELSE IF \/ ~isString(Get(token, "id"))
            \/ ~isTokenClass(Get(token, "class"))
            \/ ~isString(Get(token, "state"))
            \/ ~isString(Get(token, "stage_id"))
            \/ ~isNumber(Get(token, "queue_index"))
            \/ ~isNumber(Get(token, "service_remaining"))
    THEN "Token fields are missing or malformed."
    ELSE ""

stageError(stage) ==
    IF ~isRecord(stage) THEN "Stage entry is invalid."
    ELSE IF \/ ~isString(Get(stage, "id"))
            \/ ~isNumber(Get(stage, "queue_length"))
            \/ ~isNumber(Get(stage, "capacity_used"))
            \/ ~isNumber(Get(stage, "capacity_total"))
    THEN "Stage fields are missing or malformed."
    ELSE ""

eventError(event) ==
    IF ~isRecord(event) THEN "Event entry is invalid."
    ELSE IF \/ ~isNumber(Get(event, "tick"))
            \/ ~isString(Get(event, "type"))
            \/ ~isString(Get(event, "reason_code"))
            \/ ~isString(Get(event, "token_id"))
            \/ ~isString(Get(event, "stage_id"))
            \/ ~isString(Get(event, "class"))
    THEN "Event fields are missing or malformed."
    ELSE ""

\* The error of the first token of items[i..] that has one, "" if none has.
RECURSIVE tokensError(_, _)
tokensError(items, i) ==
    IF i > Len(items) THEN ""
    ELSE IF tokenError(items[i]) # "" THEN tokenError(items[i])
    ELSE tokensError(items, i + 1)

RECURSIVE stagesError(_, _)
stagesError(items, i) ==
    IF i > Len(items) THEN ""
    ELSE IF stageError(items[i]) # "" THEN stageError(items[i])
    ELSE stagesError(items, i + 1)

RECURSIVE eventsError(_, _)
eventsError(items, i) ==
    IF i > Len(items) THEN ""
    ELSE IF eventError(items[i]) # "" THEN eventError(items[i])
    ELSE eventsError(items, i + 1)

snapshotError(snapshot) ==
    IF ~isRecord(snapshot) THEN "Snapshot is not an object."
    ELSE IF ~isNumber(Get(snapshot, "tick")) \/ ~isNumber(Get(snapshot, "time_ms"))
    THEN "Snapshot tick or time_ms is invalid."
    ELSE IF ~isArray(Get(snapshot, "tokens")) \/ ~isArray(Get(snapshot, "stages"))
    THEN "Snapshot tokens or stages missing."
    ELSE IF tokensError(Get(snapshot, "tokens").items, 1) # ""
    THEN tokensError(Get(snapshot, "tokens").items, 1)
    ELSE stagesError(Get(snapshot, "stages").items, 1)

RECURSIVE snapshotsError(_, _)
snapshotsError(items, i) ==
    IF i > Len(items) THEN ""
    ELSE IF snapshotError(items[i]) # "" THEN snapshotError(items[i])
    ELSE snapshotsError(items, i + 1)

parsedToken(token) ==
    [id |-> Get(token, "id").value,
     class |-> Get(token, "class").value,
     state |-> Get(token, "state").value,
     stage_id |-> Get(token, "stage_id").value,
     queue_index |-> Get(token, "queue_index").value,
     service_remaining |-> Get(token, "service_remaining").value]

parsedStage(stage) ==
    [id |-> Get(stage, "id").value,
     queue_length |-> Get(stage, "queue_length").value,
     capacity_used |-> Get(stage, "capacity_used").value,
     capacity_total |-> Get(stage, "capacity_total").value]

parsedEvent(event) ==
    [tick |-> Get(event, "tick").value,
     type |-> Get(event, "type").value,
     reason_code |-> Get(event, "reason_code").value,
     token_id |-> Get(event, "token_id").value,
     stage_id |-> Get(event, "stage_id").value,
     class |-> Get(event, "class").value]

RECURSIVE parsedTokens(_, _)
parsedTokens(items, i) ==
    IF i > Len(items) THEN <<>>
    ELSE <<parsedToken(items[i])>> \o parsedTokens(items, i + 1)

RECURSIVE parsedStages(_, _)
parsedStages(items, i) ==
    IF i > Len(items) THEN <<>>
    ELSE <<parsedStage(items[i])>> \o parsedStages(items, i + 1)

RECURSIVE parsedEvents(_, _)
parsedEvents(items, i) ==
    IF i > Len(items) THEN <<>>
    ELSE <<parsedEvent(items[i])>> \o parsedEvents(items, i + 1)

parsedSnapshot(snapshot) ==
    [tick |-> Get(snapshot, "tick").value,
     time_ms |-> Get(snapshot, "time_ms").value,
     tokens |-> parsedTokens(Get(snapshot, "tokens").items, 1),
     stages |-> parsedStages(Get(snapshot, "stages").items, 1)]

RECURSIVE parsedSnapshots(_, _)
parsedSnapshots(items, i) ==
    IF i > Len(items) THEN <<>>
    ELSE <<parsedSnapshot(items[i])>> \o parsedSnapshots(items, i + 1)

\* The Metadata parseArtifact builds: a string that is missing becomes '',
\* a number that is missing NaN.
parsedMetadata(metadata) ==
    LET string(key) == IF isString(Get(metadata, key)) THEN Get(metadata, key).value ELSE ""
        number(key) == IF isNumber(Get(metadata, key)) THEN Get(metadata, key).value ELSE NaN
    IN  [scenario_id |-> string("scenario_id"),
         seed |-> number("seed"),
         engine_version |-> string("engine_version"),
         replay_id |-> string("replay_id"),
         tick_count |-> number("tick_count"),
         tick_duration_ms |-> number("tick_duration_ms"),
         total_duration_ms |-> number("total_duration_ms")]

\* Number.isFinite(meta[key]): meta[key] is the metadata's number, which is
\* finite, or NaN when the metadata has no number there.
isFinite(metadata, key) == isNumber(Get(metadata, key))

Fail(error) == [ok |-> FALSE, error |-> error]

\* Mutant of parseArtifact: an engine_version other than the UI's is
\* refused with the metadata error.
parseArtifactStrictVersion(data) ==
    IF ~isRecord(data) THEN Fail("Artifact is not an object.")
    ELSE IF ~isRecord(Get(data, "metadata")) THEN Fail("Missing metadata.")
    ELSE LET metadata == Get(data, "metadata")
             meta == parsedMetadata(metadata)
             dataSnapshots == Get(data, "snapshots")
             dataEvents == Get(data, "events")
         IN  IF \/ meta.scenario_id = ""
                \/ meta.engine_version # UI_ENGINE_VERSION
                \/ meta.replay_id = ""
                \/ ~isFinite(metadata, "seed")
                \/ ~isFinite(metadata, "tick_count")
                \/ ~isFinite(metadata, "tick_duration_ms")
             THEN Fail("Metadata fields are missing or malformed.")
             ELSE IF ~isArray(dataSnapshots) \/ dataSnapshots.items = <<>>
             THEN Fail("Snapshots missing or empty.")
             ELSE IF snapshotsError(dataSnapshots.items, 1) # ""
             THEN Fail(snapshotsError(dataSnapshots.items, 1))
             ELSE IF isArray(dataEvents) /\ eventsError(dataEvents.items, 1) # ""
             THEN Fail(eventsError(dataEvents.items, 1))
             ELSE [ok |-> TRUE,
                   artifact |->
                       [metadata |-> meta,
                        snapshots |-> parsedSnapshots(dataSnapshots.items, 1),
                        events |-> IF isArray(dataEvents)
                                   THEN parsedEvents(dataEvents.items, 1)
                                   ELSE <<>>]]

parseArtifact(data) ==
    IF ~isRecord(data) THEN Fail("Artifact is not an object.")
    ELSE IF ~isRecord(Get(data, "metadata")) THEN Fail("Missing metadata.")
    ELSE LET metadata == Get(data, "metadata")
             meta == parsedMetadata(metadata)
             dataSnapshots == Get(data, "snapshots")
             dataEvents == Get(data, "events")
         IN  IF \/ meta.scenario_id = ""
                \/ meta.engine_version = ""
                \/ meta.replay_id = ""
                \/ ~isFinite(metadata, "seed")
                \/ ~isFinite(metadata, "tick_count")
                \/ ~isFinite(metadata, "tick_duration_ms")
             THEN Fail("Metadata fields are missing or malformed.")
             ELSE IF ~isArray(dataSnapshots) \/ dataSnapshots.items = <<>>
             THEN Fail("Snapshots missing or empty.")
             ELSE IF snapshotsError(dataSnapshots.items, 1) # ""
             THEN Fail(snapshotsError(dataSnapshots.items, 1))
             ELSE IF isArray(dataEvents) /\ eventsError(dataEvents.items, 1) # ""
             THEN Fail(eventsError(dataEvents.items, 1))
             ELSE [ok |-> TRUE,
                   artifact |->
                       [metadata |-> meta,
                        snapshots |-> parsedSnapshots(dataSnapshots.items, 1),
                        events |-> IF isArray(dataEvents)
                                   THEN parsedEvents(dataEvents.items, 1)
                                   ELSE <<>>]]

\* ------------------------------------------------------ ui: the files

\* Bound of the tick_count of the artifacts loaded into the UI.
UITickCount == 2

tokenJSON ==
    Obj([id |-> Str("T0000"), class |-> Str(ClassPaid), state |-> Str(StateQueued),
         stage_id |-> Str(StageQueue), queue_index |-> Num(0),
         service_remaining |-> Num(0)])

stageJSON ==
    Obj([id |-> Str(StageQueue), queue_length |-> Num(1), capacity_used |-> Num(0),
         capacity_total |-> Num(0)])

eventJSON ==
    Obj([tick |-> Num(0), type |-> Str(EventQueue), reason_code |-> Str(ReasonQueueAdmission),
         token_id |-> Str("T0000"), stage_id |-> Str(StageQueue), class |-> Str(ClassPaid)])

RECURSIVE snapshotsJSON(_, _, _)
snapshotsJSON(t, count, token) ==
    IF t >= count THEN <<>>
    ELSE <<Obj([tick |-> Num(t), time_ms |-> Num(t * TickDurationMs),
                tokens |-> Arr(<<token>>), stages |-> Arr(<<stageJSON>>)])>>
             \o snapshotsJSON(t + 1, count, token)

\* An artifact as the engine encodes it, cut down to one token.
artifactJSON(scenario, version, count, token) ==
    Obj([metadata |->
             Obj([scenario_id |-> Str(scenario), seed |-> Num(1),
                  engine_version |-> Str(version),
                  replay_id |-> Str("replay"),
                  tick_count |-> Num(count),
                  tick_duration_ms |-> Num(TickDurationMs),
                  total_duration_ms |-> Num(count * TickDurationMs)]),
         snapshots |-> Arr(snapshotsJSON(0, count, token)),
         events |-> Arr(<<eventJSON>>)])

\* The files the user can choose.
Files ==
    {"garbage.txt", "number.json", "array.json", "noversion.json", "nosnapshots.json",
     "viptoken.json", "canonical-0.1.0.json", "canonical-0.2.0.json", "other-0.1.0.json"}

\* JSON.parse(await file.text()): the value, or a SyntaxError thrown.
JSONparse(file) ==
    CASE file = "garbage.txt" -> [ok |-> FALSE]
      [] file = "number.json" -> [ok |-> TRUE, value |-> Num(7)]
      [] file = "array.json" -> [ok |-> TRUE, value |-> Arr(<<>>)]
      [] file = "noversion.json" ->
            [ok |-> TRUE, value |-> artifactJSON(ScenarioID, "", UITickCount, tokenJSON)]
      [] file = "nosnapshots.json" ->
            [ok |-> TRUE, value |-> artifactJSON(ScenarioID, UI_ENGINE_VERSION, 0, tokenJSON)]
      [] file = "viptoken.json" ->
            [ok |-> TRUE,
             value |-> artifactJSON(ScenarioID, UI_ENGINE_VERSION, UITickCount,
                                    Obj([id |-> Str("T0000"), class |-> Str("VIP")]))]
      [] file = "canonical-0.1.0.json" ->
            [ok |-> TRUE,
             value |-> artifactJSON(ScenarioID, UI_ENGINE_VERSION, UITickCount, tokenJSON)]
      [] file = "canonical-0.2.0.json" ->
            [ok |-> TRUE, value |-> artifactJSON(ScenarioID, "0.2.0", UITickCount, tokenJSON)]
      [] file = "other-0.1.0.json" ->
            [ok |-> TRUE, value |-> artifactJSON("other_v9", UI_ENGINE_VERSION, 1, tokenJSON)]

\* ------------------------------------------------------- ui: the hooks

\* Bound of the number of files the user chooses.
MaxChosen == 2

Slots == {"baseline", "pressure"}

\* useArtifactSlots' derived values.
scenarioGate ==
    IF baselineArtifact # null THEN String(baselineArtifact.metadata.scenario_id)
    ELSE IF pressureArtifact # null THEN String(pressureArtifact.metadata.scenario_id)
    ELSE null

slotArtifact(slot) == IF slot = "baseline" THEN baselineArtifact ELSE pressureArtifact
slotError(slot) == IF slot = "baseline" THEN baselineError ELSE pressureError

activeArtifact == slotArtifact(activeSlot)
loadError == slotError(activeSlot)

\* App: whether the 'Version mismatch' badge is rendered.
versionMismatch ==
    activeArtifact # null /\ activeArtifact.metadata.engine_version # UI_ENGINE_VERSION

\* usePlayback's tickCount.
tickCount == IF activeArtifact # null THEN activeArtifact.metadata.tick_count ELSE 0

\* loadSlotData up to its state updates: the artifact to store, or the
\* error to show.  gate is the scenarioGate of the render that created
\* the callback.
loadSlotData(slot, data, gate) ==
    LET parsed == parseArtifact(data)
    IN  IF ~parsed.ok THEN Fail(parsed.error)
        ELSE IF /\ gate # null
                /\ gate.string # ""
                /\ parsed.artifact.metadata.scenario_id # gate.string
        THEN Fail("Scenario mismatch. MVP supports one scenario only.")
        ELSE parsed

\* Mutant of loadFailed: a failed load also empties the slot.
loadFailedClearsSlot(slot, error) ==
    /\ IF slot = "baseline"
       THEN /\ baselineError' = String(error)
            /\ baselineArtifact' = null
            /\ UNCHANGED <<pressureError, pressureArtifact>>
       ELSE /\ pressureError' = String(error)
            /\ pressureArtifact' = null
            /\ UNCHANGED <<baselineError, baselineArtifact>>
    /\ UNCHANGED <<activeSlot, selectedTokenId, inspectorEnabled, playbackState>>

\* setError(error) of a slot: nothing else is updated.
loadFailed(slot, error) ==
    /\ IF slot = "baseline"
       THEN baselineError' = String(error) /\ UNCHANGED pressureError
       ELSE pressureError' = String(error) /\ UNCHANGED baselineError
    /\ UNCHANGED <<baselineArtifact, pressureArtifact, activeSlot, selectedTokenId,
                   inspectorEnabled, playbackState>>

\* The updates of a successful loadSlotData, App.handleSlotChange and
\* usePlayback's reset effect, which runs because the active artifact is
\* a new object.
loadSucceeded(slot, parsed) ==
    /\ IF slot = "baseline"
       THEN /\ baselineArtifact' = parsed
            /\ baselineError' = null
            /\ UNCHANGED <<pressureArtifact, pressureError>>
       ELSE /\ pressureArtifact' = parsed
            /\ pressureError' = null
            /\ UNCHANGED <<baselineArtifact, baselineError>>
    /\ activeSlot' = slot
    /\ selectedTokenId' = null
    /\ inspectorEnabled' = FALSE
    /\ currentTick' = 0
    /\ isPlaying' = FALSE

engineState == <<callerState, mainState, artifact, cfg, pc, tick, simState, result>>

\* The UI is modelled on its own; the engine is not running.
InitUI ==
    /\ config = [ScenarioID |-> ScenarioID, Seed |-> 0]
    /\ history = <<>>
    /\ replayed = <<>>
    /\ parked = NoRun
    /\ artifact = EmptyArtifact
    /\ cfg = config
    /\ pc = "ui"
    /\ tick = 0
    /\ rng = 0
    /\ nextID = 0
    /\ tokens = <<>>
    /\ paidQueue = <<>>
    /\ freeQueue = <<>>
    /\ anonQueue = <<>>
    /\ inService = <<>>
    /\ snapshots = <<>>
    /\ events = <<>>
    /\ classes = <<>>
    /\ result = "none"
    /\ mainIdle
    /\ uiInitial

\* handleFile(slot), up to its await: the user chooses a file and the read
\* starts; the async function holds the loadSlotData of this render.
handleFile ==
    /\ pc = "ui"
    /\ chosen < MaxChosen
    /\ \E slot \in Slots, file \in Files :
           reading' = reading \cup {[id |-> chosen, slot |-> slot, file |-> file,
                                     gate |-> scenarioGate]}
    /\ chosen' = chosen + 1
    /\ UNCHANGED <<engineState, slotState, selectedTokenId, inspectorEnabled, playbackState>>

\* handleFile(slot), after its await: the text is parsed and handed to
\* loadSlotData; an exception sets the slot's error.
fileRead ==
    /\ pc = "ui"
    /\ \E r \in reading :
           /\ reading' = reading \ {r}
           /\ LET json == JSONparse(r.file)
              IN  IF ~json.ok
                  THEN loadFailed(r.slot, "Unable to parse artifact JSON.")
                  ELSE LET loaded == loadSlotData(r.slot, json.value, r.gate)
                       IN  IF loaded.ok
                           THEN loadSucceeded(r.slot, loaded.artifact)
                           ELSE loadFailed(r.slot, loaded.error)
    /\ UNCHANGED <<engineState, chosen>>

\* Mutant of handleSwitchSlot: the active slot is no reset key of the
\* playback.
handleSwitchSlotKeepsPlayback ==
    /\ pc = "ui"
    /\ \E slot \in Slots : activeSlot' = slot
    /\ selectedTokenId' = null
    /\ inspectorEnabled' = FALSE
    /\ UNCHANGED <<engineState, baselineArtifact, pressureArtifact, baselineError,
                   pressureError, playbackState, reading, chosen>>

\* handleSwitchSlot with App.handleSlotChange; usePlayback's reset effect
\* runs when the active slot (its resetKey) changed.
handleSwitchSlot ==
    /\ pc = "ui"
    /\ \E slot \in Slots :
           /\ activeSlot' = slot
           /\ IF slot # activeSlot
              THEN currentTick' = 0 /\ isPlaying' = FALSE
              ELSE UNCHANGED playbackState
    /\ selectedTokenId' = null
    /\ inspectorEnabled' = FALSE
    /\ UNCHANGED <<engineState, baselineArtifact, pressureArtifact, baselineError,
                   pressureError, reading, chosen>>

\* The Inspector button of App.
toggleInspector ==
    /\ pc = "ui"
    /\ inspectorEnabled' = ~inspectorEnabled
    /\ UNCHANGED <<engineState, slotState, selectedTokenId, playbackState, reading, chosen>>

\* ReviewLog.handleSelect on one of the events shown at the current tick.
handleSelect ==
    /\ pc = "ui"
    /\ activeArtifact # null
    /\ \E i \in 1..Len(activeArtifact.events) :
           LET event == activeArtifact.events[i]
           IN  /\ event.tick <= currentTick
               /\ selectedTokenId' = IF selectedTokenId = String(event.token_id)
                                     THEN null
                                     ELSE String(event.token_id)
    /\ UNCHANGED <<engineState, slotState, inspectorEnabled, playbackState, reading, chosen>>

\* Mutant of timerFired: the callback stops one tick late.
timerFiredPastEnd ==
    /\ pc = "ui"
    /\ activeArtifact # null
    /\ isPlaying
    /\ LET next == currentTick + 1
       IN  IF next > activeArtifact.metadata.tick_count
           THEN isPlaying' = FALSE /\ UNCHANGED currentTick
           ELSE currentTick' = next /\ UNCHANGED isPlaying
    /\ UNCHANGED <<engineState, slotState, selectedTokenId, inspectorEnabled, reading, chosen>>

\* usePlayback's interval callback.
timerFired ==
    /\ pc = "ui"
    /\ activeArtifact # null
    /\ isPlaying
    /\ LET next == currentTick + 1
       IN  IF next >= activeArtifact.metadata.tick_count
           THEN isPlaying' = FALSE /\ UNCHANGED currentTick
           ELSE currentTick' = next /\ UNCHANGED isPlaying
    /\ UNCHANGED <<engineState, slotState, selectedTokenId, inspectorEnabled, reading, chosen>>

handleTogglePlay ==
    /\ pc = "ui"
    /\ activeArtifact # null
    /\ IF currentTick >= activeArtifact.metadata.tick_count - 1
       THEN currentTick' = 0
       ELSE UNCHANGED currentTick
    /\ isPlaying' = ~isPlaying
    /\ UNCHANGED <<engineState, slotState, selectedTokenId, inspectorEnabled, reading, chosen>>

\* handleScrub with a value of the range input, 0 .. max(tickCount - 1, 0).
handleScrub ==
    /\ pc = "ui"
    /\ activeArtifact # null
    /\ \E value \in 0..(IF tickCount - 1 > 0 THEN tickCount - 1 ELSE 0) :
           currentTick' = value
    /\ isPlaying' = FALSE
    /\ UNCHANGED <<engineState, slotState, selectedTokenId, inspectorEnabled, reading, chosen>>

NextUI ==
    \/ handleFile
    \/ fileRead
    \/ handleSwitchSlot
    \/ toggleInspector
    \/ handleSelect
    \/ timerFired
    \/ handleTogglePlay
    \/ handleScrub

SpecUI == InitUI /\ [][NextUI]_vars

\* ======================================================================
\* Properties
\* ======================================================================

Tokens == 1..Len(tokens)

Occurrences(seq, x) == Cardinality({k \in 1..Len(seq) : seq[k] = x})

AllQueues == paidQueue \o freeQueue \o anonQueue

States == {StateQueued, StateProcessing, StateDone, StateRejected}

\* The snapshot most recently appended, when there is one.
HasSnapshot == Len(snapshots) > 0
LastSnapshot == snapshots[Len(snapshots)]

\* The run is over and Run returned its artifact: snapshots and events are
\* the artifact's.
Returned == pc = "returned" /\ result = "artifact"

\* C1: the number of in-service (processing) requests never exceeds the
\* fixed capacity 3, in every state of a run; and every snapshot's service
\* stage reports capacity_used <= capacity_total with capacity_total = 3.
C1_CapacityInvariant ==
    /\ Len(inService) <= 3
    /\ Cardinality({p \in Tokens : tokens[p].State = StateProcessing}) <= 3
    /\ \A i \in 1..Len(snapshots) :
          \A k \in 1..Len(snapshots[i].Stages) :
             LET st == snapshots[i].Stages[k]
             IN  st.ID = StageService =>
                    /\ st.CapacityUsed <= st.CapacityTotal
                    /\ st.CapacityTotal = 3
    /\ HasSnapshot =>
          /\ \E k \in 1..Len(LastSnapshot.Stages) : LastSnapshot.Stages[k].ID = StageService
          /\ Cardinality({k \in 1..Len(LastSnapshot.Tokens) :
                             LastSnapshot.Tokens[k].State = StateProcessing}) <= 3

\* C1 witness: a snapshot taken with the service pool full while requests
\* are still waiting.
C1_Witness ==
    /\ HasSnapshot
    /\ pc = "loop"
    /\ LastSnapshot.Stages[2].CapacityUsed = 3
    /\ LastSnapshot.Stages[1].QueueLength > 0
    /\ Len(inService) = 3

\* Snapshot i lists every token that had arrived by its tick exactly once,
\* each in one of the four states.
SnapshotConserves(i) ==
    LET snap == snapshots[i]
        ids == {snap.Tokens[k].ID : k \in 1..Len(snap.Tokens)}
    IN  /\ Cardinality(ids) = Len(snap.Tokens)
        /\ \A p \in Tokens : tokens[p].ArrivalTick <= snap.Tick => tokens[p].ID \in ids
        /\ \A k \in 1..Len(snap.Tokens) : snap.Tokens[k].State \in States

\* C2: conservation. Every token created appears exactly once in the
\* snapshot of its arrival tick and in every later snapshot, in exactly one
\* of the states queued, processing, done, rejected. Checked of the newest
\* snapshot in every state, and of all snapshots of the returned artifact.
C2_Conservation ==
    /\ HasSnapshot => SnapshotConserves(Len(snapshots))
    /\ Returned => \A i \in 1..Len(snapshots) : SnapshotConserves(i)

\* C2 witness: a returned artifact some of whose tokens ended rejected,
\* some done, and whose last snapshot lists all of them.
C2_Witness ==
    /\ Returned
    /\ Len(tokens) > 0
    /\ Len(LastSnapshot.Tokens) = Len(tokens)
    /\ \E p \in Tokens : tokens[p].State = StateRejected /\ tokens[p].ArrivalTick < RateStep4
    /\ \E p \in Tokens : tokens[p].State = StateDone /\ tokens[p].ArrivalTick = 0

\* The entry of snapshot i for the token with identifier id.
SnapshotEntry(i, id) ==
    LET snap == snapshots[i]
    IN  snap.Tokens[CHOOSE k \in 1..Len(snap.Tokens) : snap.Tokens[k].ID = id]

\* Between snapshot i and snapshot i+1 every token listed in snapshot i keeps
\* its state or moves queued -> processing or processing -> done.
SnapshotStep(i) ==
    LET a == snapshots[i]
        b == snapshots[i + 1]
    IN  \A k \in 1..Len(a.Tokens) :
           /\ k <= Len(b.Tokens)
           /\ LET x == a.Tokens[k]
                  y == IF b.Tokens[k].ID = x.ID THEN b.Tokens[k]
                       ELSE SnapshotEntry(i + 1, x.ID)
              IN  \/ y.State = x.State
                  \/ x.State = StateQueued /\ y.State = StateProcessing
                  \/ x.State = StateProcessing /\ y.State = StateDone

\* C3: terminal states are absorbing, and the only state changes between two
\* consecutive snapshots are queued -> processing and processing -> done.
\* Checked of the newest pair of snapshots in every state, and of every
\* consecutive pair of the returned artifact (done and rejected then stay
\* for all later snapshots, by chaining the pairs).
C3_TerminalAbsorbing ==
    /\ Len(snapshots) >= 2 => SnapshotStep(Len(snapshots) - 1)
    /\ Returned => \A i \in 1..(Len(snapshots) - 1) : SnapshotStep(i)

\* C3 witness: two consecutive snapshots across which one token goes
\* queued -> processing, another processing -> done, and a rejected token
\* stays rejected.
C3_Witness ==
    /\ Len(snapshots) >= 2
    /\ LET a == snapshots[Len(snapshots) - 1]
           b == LastSnapshot
       IN  /\ \E k \in 1..Len(a.Tokens) :
                 a.Tokens[k].State = StateQueued /\ b.Tokens[k].State = StateProcessing
           /\ \E k \in 1..Len(a.Tokens) :
                 a.Tokens[k].State = StateProcessing /\ b.Tokens[k].State = StateDone
           /\ \E k \in 1..Len(a.Tokens) :
                 a.Tokens[k].State = StateRejected /\ b.Tokens[k].State = StateRejected

QueueOf(class) ==
    IF class = ClassPaid THEN paidQueue
    ELSE IF class = ClassFree THEN freeQueue
    ELSE anonQueue

\* C4: queue membership and token state agree in every state: a token is in
\* a class queue iff its state is queued; a queued token is exactly once in
\* the queue of its own class and in no other; a token is in the service
\* pool iff its state is processing (and then once).
C4_QueueStateAgree ==
    /\ \A k \in 1..Len(AllQueues) : AllQueues[k] \in Tokens
    /\ \A k \in 1..Len(inService) : inService[k] \in Tokens
    /\ \A p \in Tokens :
          LET tok == tokens[p]
          IN  /\ tok.Class \in {ClassPaid, ClassFree, ClassAnon}
              /\ (Occurrences(AllQueues, p) > 0) <=> (tok.State = StateQueued)
              /\ tok.State = StateQueued =>
                    /\ Occurrences(QueueOf(tok.Class), p) = 1
                    /\ Occurrences(AllQueues, p) = 1
              /\ (Occurrences(inService, p) > 0) <=> (tok.State = StateProcessing)
              /\ Occurrences(inService, p) <= 1

\* C4 witness: just after a scheduling phase the pool is full, tokens of two
\* classes are still waiting, and earlier tokens are done and rejected.
C4_Witness ==
    /\ pc = "snapshot"
    /\ Len(freeQueue) > 0 /\ Len(anonQueue) > 1
    /\ Len(inService) = 3
    /\ \E p \in Tokens : tokens[p].State = StateRejected
    /\ \E p \in Tokens : tokens[p].State = StateDone

\* ---------------------------------------------------------------------
\* The event trace

\* Priority rank of a class: PAID > FREE > ANON.
Rank(class) ==
    IF class = ClassPaid THEN 3 ELSE IF class = ClassFree THEN 2 ELSE 1

\* The position in events of token p's first event of the given type, or 0.
EventPos(p, type) ==
    LET hits == {i \in 1..Len(events) :
                    events[i].TokenID = tokens[p].ID /\ events[i].Type = type}
    IN  IF hits = {} THEN 0
        ELSE CHOOSE i \in hits : \A j \in hits : i <= j

\* The token whose identifier is id.
TokenOf(id) == CHOOSE p \in Tokens : tokens[p].ID = id

\* ev(h) precedes ev(l) in the event sequence, and so has no later tick.
ScheduledFirst(spos, h, l) ==
    /\ spos[h] # 0
    /\ spos[h] < spos[l]
    /\ events[spos[h]].Tick <= events[spos[l]].Tick

\* For the tokens 1..n, the positions of their events of the given type.
RECURSIVE EventPositions(_, _)
EventPositions(n, type) ==
    IF n = 0 THEN <<>>
    ELSE Append(EventPositions(n - 1, type), EventPos(n, type))

\* The positions of every token's QUEUE event and SCHEDULE event.
QueuePositions == EventPositions(Len(tokens), EventQueue)
SchedulePositions == EventPositions(Len(tokens), EventSchedule)

\* Whenever h outranks l, was queued before l was scheduled, and l is
\* scheduled: h is scheduled first.
PriorityOrderedEvents(qpos, spos) ==
    \A h \in Tokens : \A l \in Tokens :
       ( /\ Rank(tokens[h].Class) > Rank(tokens[l].Class)
         /\ qpos[h] # 0 /\ spos[l] # 0
         /\ qpos[h] < spos[l] )
       => ScheduledFirst(spos, h, l)

\* The same of every two tokens listed as queued in one snapshot.
PriorityOrderedSnapshots(spos) ==
    \A i \in 1..Len(snapshots) :
       LET snap == snapshots[i]
           queued == {k \in 1..Len(snap.Tokens) : snap.Tokens[k].State = StateQueued}
       IN  \A x \in queued : \A y \in queued :
              ( /\ Rank(snap.Tokens[x].Class) > Rank(snap.Tokens[y].Class)
                /\ spos[TokenOf(snap.Tokens[y].ID)] # 0 )
              => ScheduledFirst(spos, TokenOf(snap.Tokens[x].ID),
                                TokenOf(snap.Tokens[y].ID))

\* C5: priority ordering, PAID > FREE > ANON. If a higher-priority request h
\* and a lower-priority request l are both queued at the same tick (both
\* listed as queued in one snapshot; or, more generally, h was queued
\* before l was scheduled) and l is scheduled, then h is scheduled, and its
\* SCHEDULE event comes earlier in the event sequence, with no later tick.
\* Stated of the whole trace of a returned artifact.
C5_PriorityOrdering ==
    Returned =>
       /\ PriorityOrderedEvents(QueuePositions, SchedulePositions)
       /\ PriorityOrderedSnapshots(SchedulePositions)

\* C5 witness: a returned trace in which a FREE request that arrived later
\* than an ANON request waited with it in one snapshot and was scheduled
\* at an earlier tick.
C5_Witness ==
    /\ Returned
    /\ \E i \in 1..Len(snapshots) :
          LET snap == snapshots[i]
          IN  \E x \in 1..Len(snap.Tokens) : \E y \in 1..Len(snap.Tokens) :
                 /\ snap.Tokens[x].State = StateQueued
                 /\ snap.Tokens[y].State = StateQueued
                 /\ snap.Tokens[x].Class = ClassFree
                 /\ snap.Tokens[y].Class = ClassAnon
                 /\ y < x
                 /\ EventPos(y, EventSchedule) # 0
                 /\ EventPos(x, EventSchedule) # 0
                 /\ events[EventPos(x, EventSchedule)].Tick
                       < events[EventPos(y, EventSchedule)].Tick

\* C6: rejection boundary. Each admission decision (one iteration of
\* arrivals' loop) rejects the arriving request iff it is ANON and the
\* combined length of the three queues at that moment is >= 12; at 11 an
\* ANON request is queued. The length at that moment counts every token
\* that is queued then: not the arriving one, but those queued earlier in
\* the same arrival phase, before the tick's scheduling phase.
C6_RejectionBoundary ==
    [][ (pc = "admit" /\ classes # <<>>) =>
          LET class == Head(classes)
              new == tokens'[Len(tokens')]
          IN  /\ Len(tokens') = Len(tokens) + 1
              /\ new.Class = class
              /\ new.ArrivalTick = tick
              /\ new.State \in {StateQueued, StateRejected}
              /\ QueueLength =
                    Cardinality({p \in Tokens : tokens[p].State = StateQueued})
              /\ (new.State = StateRejected) <=> (class = ClassAnon /\ QueueLength >= 12)
              /\ (class = ClassAnon /\ QueueLength = 11) =>
                    (new.State = StateQueued /\ QueueLength' = 12)
      ]_vars

\* C6 witness: in one arrival phase an ANON request was admitted at
\* combined length 11 and the next ANON request, at length 12, was rejected.
C6_Witness ==
    /\ pc = "admit"
    /\ Len(tokens) >= 2
    /\ QueueLength = 12
    /\ LET new == tokens[Len(tokens)]
           prev == tokens[Len(tokens) - 1]
       IN  /\ new.Class = ClassAnon /\ new.State = StateRejected
           /\ prev.Class = ClassAnon /\ prev.State = StateQueued
           /\ prev.ArrivalTick = new.ArrivalTick
           /\ anonQueue[Len(anonQueue)] = Len(tokens) - 1

\* C7: PAID and FREE requests are never rejected: every token in state
\* rejected, and every REJECT event, has class ANON.
C7_OnlyAnonRejected ==
    /\ \A p \in Tokens : tokens[p].State = StateRejected => tokens[p].Class = ClassAnon
    /\ \A i \in 1..Len(events) : events[i].Type = EventReject => events[i].Class = ClassAnon
    /\ HasSnapshot =>
          \A k \in 1..Len(LastSnapshot.Tokens) :
             LastSnapshot.Tokens[k].State = StateRejected
                => LastSnapshot.Tokens[k].Class = ClassAnon

\* C7 witness: a PAID request has just been queued although the queues
\* already held 12 or more, and an ANON request was rejected in that tick.
C7_Witness ==
    /\ pc = "admit"
    /\ Len(tokens) >= 1
    /\ tokens[Len(tokens)].Class = ClassPaid
    /\ tokens[Len(tokens)].State = StateQueued
    /\ QueueLength >= 13
    /\ \E p \in Tokens : tokens[p].State = StateRejected

\* The positions in events of the events of token p.
EventsOf(p) == {i \in 1..Len(events) : events[i].TokenID = tokens[p].ID}

\* C8: a rejected request's lifecycle ends at its arrival tick. In every
\* state a rejected token is in no queue and not in the service pool; and
\* in the whole trace of a returned artifact a token that was rejected has
\* exactly one event, a REJECT with reason REJECT_OVERLOAD at its arrival
\* tick (so no SCHEDULE, COMPLETE or second admission).
C8_RejectedIsFinal ==
    /\ \A p \in Tokens :
          tokens[p].State = StateRejected =>
             /\ Occurrences(AllQueues, p) = 0
             /\ Occurrences(inService, p) = 0
             /\ tokens[p].StageID = StageRejected
    /\ Len(events) > 0 /\ events[Len(events)].Type = EventReject =>
          LET p == TokenOf(events[Len(events)].TokenID)
          IN  /\ tokens[p].State = StateRejected
              /\ EventsOf(p) = {Len(events)}
    /\ Returned =>
          \A p \in Tokens :
             (tokens[p].State = StateRejected \/ EventPos(p, EventReject) # 0) =>
                /\ tokens[p].State = StateRejected
                /\ Cardinality(EventsOf(p)) = 1
                /\ \A i \in EventsOf(p) :
                      /\ events[i].Type = EventReject
                      /\ events[i].ReasonCode = ReasonRejectOverload
                      /\ events[i].Tick = tokens[p].ArrivalTick
                /\ \A i \in 1..Len(snapshots) :
                      snapshots[i].Tick >= tokens[p].ArrivalTick =>
                         SnapshotEntry(i, tokens[p].ID).State = StateRejected

\* C8 witness: a returned artifact with a request rejected well before the
\* end of the run, while requests admitted after it were served.
C8_Witness ==
    /\ Returned
    /\ \E p \in Tokens : \E q \in Tokens :
          /\ tokens[p].State = StateRejected
          /\ tokens[p].ArrivalTick + 5 < TickCount
          /\ q > p
          /\ tokens[q].State = StateDone

Increasing(seq) ==
    \A k \in 1..(Len(seq) - 1) : seq[k] < seq[k + 1]

\* Of two admitted tokens of one class the one created first was queued
\* first and, if the other is scheduled, is scheduled first.
FifoEvents(qpos, spos) ==
    \A a \in Tokens : \A b \in Tokens :
       ( /\ a < b
         /\ tokens[a].Class = tokens[b].Class
         /\ qpos[a] # 0 /\ qpos[b] # 0 )
       => /\ qpos[a] < qpos[b]
          /\ spos[b] # 0 => ScheduledFirst(spos, a, b)

\* C9: FIFO within a class. In every state each class queue holds its tokens
\* in creation order; and in the whole trace of a returned artifact, of two
\* admitted requests of one class the one queued earlier (smaller id) is
\* scheduled first: if the later one is scheduled, so is the earlier one,
\* at an earlier position of the event sequence and no later tick.
C9_FifoWithinClass ==
    /\ Increasing(paidQueue) /\ Increasing(freeQueue) /\ Increasing(anonQueue)
    /\ Returned => FifoEvents(QueuePositions, SchedulePositions)

\* C9 witness: a returned trace in which two ANON requests waited together
\* and were scheduled at different ticks, the earlier one first.
C9_Witness ==
    /\ Returned
    /\ \E a \in Tokens : \E b \in Tokens :
          /\ a < b
          /\ tokens[a].Class = ClassAnon /\ tokens[b].Class = ClassAnon
          /\ EventPos(a, EventSchedule) # 0 /\ EventPos(b, EventSchedule) # 0
          /\ EventPos(b, EventQueue) < EventPos(a, EventSchedule)
          /\ events[EventPos(a, EventSchedule)].Tick
                < events[EventPos(b, EventSchedule)].Tick

\* The phase of a tick an event type belongs to: completion, admission,
\* scheduling.
PhaseOf(type) ==
    IF type = EventComplete THEN 1
    ELSE IF type = EventQueue \/ type = EventReject THEN 2
    ELSE IF type = EventSchedule THEN 3
    ELSE 0

EventsOrdered ==
    \A i \in 1..(Len(events) - 1) :
       /\ PhaseOf(events[i].Type) # 0 /\ PhaseOf(events[i + 1].Type) # 0
       /\ \/ events[i].Tick < events[i + 1].Tick
          \/ /\ events[i].Tick = events[i + 1].Tick
             /\ PhaseOf(events[i].Type) <= PhaseOf(events[i + 1].Type)

\* C10: event ordering. Every step leaves the recorded events in place and
\* only appends (events is a prefix of events'), and the sequence has
\* non-decreasing ticks with, inside one tick, all COMPLETE events before all
\* QUEUE/REJECT events before all SCHEDULE events.
C10_EventOrdering ==
    [][ /\ Len(events) <= Len(events')
        /\ SubSeq(events', 1, Len(events)) = events
        /\ EventsOrdered' ]_vars

\* C10 witness: a tick that recorded events of all four types.
C10_Witness ==
    /\ pc = "snapshot"
    /\ \A type \in {EventComplete, EventQueue, EventReject, EventSchedule} :
          \E i \in 1..Len(events) : events[i].Tick = tick /\ events[i].Type = type

\* ------------------------------------------------------------------ C11

Min(a, b) == IF a <= b THEN a ELSE b

\* The number of entries of a snapshot's token listing that are in a state.
SnapshotCount(snap, state) ==
    Cardinality({k \in 1..Len(snap.Tokens) : snap.Tokens[k].State = state})

\* C11: scheduling is work-conserving.  The schedule phase of a tick, which
\* runs after that tick's completions and arrivals, fills the service slots
\* from the queues until capacity is exhausted or every queue is empty: it
\* moves min(free slots, queued requests) requests into service; and in
\* every snapshot capacity_used = capacity_total or queue_length = 0.
C11_WorkConserving ==
    [][/\ pc = "schedule" =>
            /\ Len(inService') = Min(3, Len(inService) + QueueLength)
            /\ QueueLength' = QueueLength - (Len(inService') - Len(inService))
            /\ Len(inService') = 3 \/ QueueLength' = 0
       /\ Len(snapshots') > Len(snapshots) =>
            LET snap == snapshots'[Len(snapshots')]
            IN  /\ \/ snap.Stages[2].CapacityUsed = snap.Stages[2].CapacityTotal
                   \/ snap.Stages[1].QueueLength = 0
                /\ \/ SnapshotCount(snap, StateProcessing) = 3
                   \/ SnapshotCount(snap, StateQueued) = 0]_vars

\* A tick whose completions freed slots that went to requests that arrived
\* in the same tick, while other requests stay queued behind a full service.
C11_Witness ==
    /\ pc = "snapshot"
    /\ Len(inService) = 3
    /\ QueueLength > 0
    /\ \E k \in 1..Len(events) :
           events[k].Tick = tick /\ events[k].Type = EventComplete
    /\ \E p \in Tokens :
           tokens[p].ArrivalTick = tick /\ tokens[p].State = StateProcessing
    /\ \E i \in 1..Len(snapshots) :
           /\ snapshots[i].Stages[1].QueueLength = 0
           /\ snapshots[i].Stages[2].CapacityUsed < 3

\* ------------------------------------------------------------------ C12

\* The queue_index values of a snapshot's listing: the n queued entries
\* carry exactly 0..n-1, in the order paid, free, anon and, inside a class,
\* in FIFO order (the listing's order is creation order); the others carry -1.
QueueIndexed(snap) ==
    LET T == snap.Tokens
        Q == {k \in 1..Len(T) : T[k].State = StateQueued}
        n == Cardinality(Q)
    IN  /\ \A k \in 1..Len(T) : T[k].QueueIndex >= -1
        /\ \A k \in (1..Len(T)) \ Q : T[k].QueueIndex = -1
        /\ {T[k].QueueIndex : k \in Q} = 0..(n - 1)
        /\ \A j, k \in Q :
               T[j].QueueIndex < T[k].QueueIndex <=>
                   \/ Rank(T[j].Class) > Rank(T[k].Class)
                   \/ T[j].Class = T[k].Class /\ j < k

\* C12: in every snapshot with n queued tokens the queue_index values are
\* exactly 0..n-1, numbered over the PAID queue, then the FREE queue, then
\* the ANON queue, each in FIFO order; every token that is not queued
\* carries -1, so queue_index >= -1 throughout.  Right after a snapshot the
\* live tokens carry their position in the concatenated queues.
C12_QueueIndices ==
    /\ HasSnapshot => QueueIndexed(LastSnapshot)
    /\ Returned => \A i \in 1..Len(snapshots) : QueueIndexed(snapshots[i])
    /\ pc = "loop" /\ HasSnapshot =>
           \A k \in 1..Len(AllQueues) : tokens[AllQueues[k]].QueueIndex = k - 1

\* A snapshot whose queue holds FREE and ANON requests, the ANON ones
\* numbered after the FREE ones, next to tokens that are not queued.
C12_Witness ==
    /\ pc = "loop"
    /\ HasSnapshot
    /\ Len(freeQueue) >= 2
    /\ Len(anonQueue) >= 2
    /\ LET T == LastSnapshot.Tokens
       IN  /\ \E k \in 1..Len(T) : T[k].State = StateDone /\ T[k].QueueIndex = -1
           /\ \E k \in 1..Len(T) : T[k].State = StateRejected /\ T[k].QueueIndex = -1
           /\ \E j, k \in 1..Len(T) :
                  /\ j < k
                  /\ T[j].Class = ClassAnon /\ T[k].Class = ClassFree
                  /\ T[j].State = StateQueued /\ T[k].State = StateQueued
                  /\ T[k].QueueIndex < T[j].QueueIndex

\* ------------------------------------------------------------------ C14

\* The fields a snapshot's listing copies from the live tokens.
ListedAsLive(snap) ==
    /\ Len(snap.Tokens) = Len(tokens)
    /\ \A p \in Tokens :
           /\ snap.Tokens[p].ID = tokens[p].ID
           /\ snap.Tokens[p].State = tokens[p].State
           /\ snap.Tokens[p].StageID = tokens[p].StageID
           /\ snap.Tokens[p].QueueIndex = tokens[p].QueueIndex
           /\ snap.Tokens[p].ServiceRemaining = tokens[p].ServiceRemaining
    /\ snap.Stages[1].QueueLength = QueueLength
    /\ snap.Stages[2].CapacityUsed = Len(inService)

\* C14: exactly one snapshot is recorded per tick, in tick order: the i-th
\* snapshot (counting from 0) has tick = i and time_ms = i * 250, the
\* snapshot list of a returned artifact has length tick_count, and each
\* snapshot is taken after its tick's completion, arrival, scheduling and
\* index-recomputation phases, so it shows the state those phases left and
\* no event of its tick is recorded after it.
C14_OneSnapshotPerTick ==
    /\ Len(snapshots) = tick
    /\ \A i \in 1..Len(snapshots) :
           /\ snapshots[i].Tick = i - 1
           /\ snapshots[i].TimeMs = (i - 1) * 250
    /\ Returned => Len(snapshots) = TickCount
    /\ pc = "loop" /\ HasSnapshot =>
           /\ ListedAsLive(LastSnapshot)
           /\ \A k \in 1..Len(events) : events[k].Tick <= LastSnapshot.Tick
    /\ \A k \in 1..Len(events) : events[k].Tick <= tick

\* A returned artifact: one snapshot for each tick of the run, the last
\* one showing requests in all four states.
C14_Witness ==
    /\ Returned
    /\ Len(snapshots) = TickCount
    /\ LastSnapshot.Tick = TickCount - 1
    /\ LastSnapshot.TimeMs = (TickCount - 1) * 250
    /\ \A st \in {StateDone, StateRejected} : SnapshotCount(LastSnapshot, st) > 0

\* ------------------------------------------------------------------ C15

\* C15: snapshots and events are immutable once recorded: every step of a
\* run leaves each snapshot and each event appended before it unchanged,
\* and only appends to the two lists.
C15_RecordedImmutable ==
    [][/\ Len(snapshots') >= Len(snapshots)
       /\ SubSeq(snapshots', 1, Len(snapshots)) = snapshots
       /\ Len(events') >= Len(events)
       /\ SubSeq(events', 1, Len(events)) = events]_vars

\* Later ticks changed live tokens that an earlier snapshot had recorded:
\* the snapshot still shows a request queued that has since completed, and
\* the request's QUEUE event is still in place before its COMPLETE event.
C15_Witness ==
    /\ pc = "loop"
    /\ Len(snapshots) >= 3
    /\ \E i \in 1..(Len(snapshots) - 1) : \E p \in 1..Len(snapshots[i].Tokens) :
           /\ snapshots[i].Tokens[p].State = StateQueued
           /\ snapshots[i].Tokens[p].QueueIndex >= 0
           /\ tokens[p].State = StateDone
           /\ tokens[p].QueueIndex = -1
           /\ LastSnapshot.Tokens[p].State = StateDone
           /\ EventPos(p, EventQueue) > 0
           /\ EventPos(p, EventQueue) < EventPos(p, EventComplete)

\* ------------------------------------------------------------------ C13

\* The caller's second call of Run has returned.
ReturnedAgain == pc = "returned" /\ history # <<>>

\* C13: determinism.  Two runs with the same scenario id and the same seed
\* return identical results: the same metadata, replay_id included, the
\* same snapshots and the same events in the same order (and the same
\* error when the scenario is refused).
C13_Determinism ==
    ReturnedAgain /\ history[1].Config = config =>
        /\ history[1].Result = result
        /\ history[1].Artifact.Metadata = artifact.Metadata
        /\ history[1].Artifact.Snapshots = artifact.Snapshots
        /\ history[1].Artifact.Events = artifact.Events

\* Two completed runs of the same configuration, each with a full list of
\* snapshots and with rejections among the events.
C13_Witness ==
    /\ ReturnedAgain
    /\ history[1].Config = config
    /\ config.Seed > 0
    /\ result = "artifact"
    /\ history[1].Result = "artifact"
    /\ Len(artifact.Snapshots) = TickCount
    /\ Len(history[1].Artifact.Snapshots) = TickCount
    /\ \E k \in 1..Len(artifact.Events) : artifact.Events[k].Type = EventReject
    /\ Len(artifact.Metadata.ReplayID) > 0

\* ------------------------------------------------------------------ C16

\* C16: in every artifact Run returns, total_duration_ms equals
\* tick_count * tick_duration_ms, and tick_count and tick_duration_ms are
\* the engine's constants whatever the seed.
C16_MetadataArithmetic ==
    Returned =>
        /\ artifact.Metadata.TotalDurationMs
               = artifact.Metadata.TickCount * artifact.Metadata.TickDurationMs
        /\ artifact.Metadata.TickCount = TickCount
        /\ artifact.Metadata.TickDurationMs = 250

\* An artifact returned for a seed other than the CLI's default.
C16_Witness ==
    /\ Returned
    /\ config.Seed > 1
    /\ artifact.Metadata.Seed = config.Seed
    /\ artifact.Metadata.TickCount > 0
    /\ artifact.Metadata.TotalDurationMs = TickCount * 250

\* ------------------------------------------------------------------ C17

\* C17: ReplayID is a function of the triple (scenario id, seed, engine
\* version): two calls return the same identifier for the same triple, and
\* a different one when exactly one of the three components differs.
C17_ReplayIDSensitive ==
    Len(replayed) = 2 =>
        (replayed[1].id = replayed[2].id <=> replayed[1].args = replayed[2].args)

\* Two calls whose triples differ in the version only, in the seed only
\* or in the scenario id only return different identifiers.
C17_Witness ==
    /\ Len(replayed) = 2
    /\ Differences(replayed[1].args, replayed[2].args) = 1
    /\ replayed[1].args.version # replayed[2].args.version
    /\ replayed[1].args.seed < 0
    /\ replayed[1].id # replayed[2].id

\* ------------------------------------------------------------------ C18

HexDigits ==
    {"0", "1", "2", "3", "4", "5", "6", "7", "8", "9", "a", "b", "c", "d", "e", "f"}

\* C18: ReplayID returns a non-empty string of exactly 64 hexadecimal
\* characters, for every triple, the empty strings included.
C18_ReplayIDFormat ==
    \A k \in 1..Len(replayed) :
        /\ replayed[k].id # <<>>
        /\ Len(replayed[k].id) = 64
        /\ \A i \in 1..Len(replayed[k].id) : replayed[k].id[i] \in HexDigits

\* The identifier of the triple of empty strings and seed 0: 64
\* characters, digits and letters among them.
C18_Witness ==
    /\ Len(replayed) = 1
    /\ replayed[1].args = [scenarioID |-> "", seed |-> 0, version |-> ""]
    /\ Len(replayed[1].id) = 64
    /\ \E i \in 1..64 : replayed[1].id[i] \in {"a", "b", "c", "d", "e", "f"}
    /\ \E i \in 1..64 : replayed[1].id[i] \in {"0", "1", "2", "3", "4"}

\* ------------------------------------------------------------------ C19

\* C19: Run with a non-empty scenario id other than "canonical_v1" returns
\* an error and an empty artifact without executing any tick: no token is
\* created, no random source is made or drawn from, and no snapshot or
\* event is recorded.
C19_UnknownScenarioFails ==
    config.ScenarioID # "" /\ config.ScenarioID # "canonical_v1" =>
        /\ pc \in {"Run", "returned"}
        /\ pc = "returned" => result = "error" /\ artifact = EmptyArtifact
        /\ tick = 0
        /\ rng = 0
        /\ nextID = 0
        /\ tokens = <<>>
        /\ QueueLength = 0
        /\ inService = <<>>
        /\ snapshots = <<>>
        /\ events = <<>>

\* Run has refused an unknown scenario id, for a seed that would have
\* given the random source a state other than the initial one.
C19_Witness ==
    /\ pc = "returned"
    /\ config.ScenarioID = "other_v9"
    /\ config.Seed > 0
    /\ cfg = config
    /\ result = "error"
    /\ artifact.Snapshots = <<>>
    /\ artifact.Metadata.ReplayID = <<>>

\* ------------------------------------------------------------------ C20

\* C20: Run with an empty scenario id does not fail and behaves as Run
\* with "canonical_v1" and the same seed: the metadata carries scenario_id
\* "canonical_v1" and the replay_id computed over "canonical_v1", and the
\* artifact equals the one a call with "canonical_v1" returns.
C20_EmptyScenarioDefaults ==
    /\ pc = "returned" /\ config.ScenarioID = "" =>
           /\ result = "artifact"
           /\ artifact.Metadata.ScenarioID = "canonical_v1"
           /\ artifact.Metadata.Seed = config.Seed
           /\ artifact.Metadata.ReplayID
                  = ReplayID("canonical_v1", config.Seed, EngineVersion)
    /\ (/\ ReturnedAgain
        /\ {config.ScenarioID, history[1].Config.ScenarioID} = {"", "canonical_v1"})
           => /\ history[1].Result = result
              /\ history[1].Artifact = artifact

\* A run with the empty scenario id after a run with "canonical_v1" and
\* the same seed: both returned an artifact with events.
C20_Witness ==
    /\ ReturnedAgain
    /\ config.ScenarioID = ""
    /\ history[1].Config.ScenarioID = "canonical_v1"
    /\ history[1].Config.Seed = config.Seed
    /\ history[1].Result = "artifact"
    /\ result = "artifact"
    /\ Len(artifact.Events) > 0
    /\ artifact.Metadata.ScenarioID = "canonical_v1"

\* ------------------------------------------------------------------ C21

\* C21: a run that completes its ticks with zero recorded events returns
\* an error and no artifact, and a run with events returns them; so every
\* artifact Run returns has a non-empty event list.  (Every tick has an
\* arrival and every arrival an event, so after the first tick's arrivals
\* the event list of a run is never empty.)
C21_NoEmptyArtifact ==
    /\ pc = "returned" /\ DefaultScenario(config.ScenarioID) = ScenarioID =>
           /\ result = "artifact" <=> Len(events) > 0
           /\ result = "error" => artifact = EmptyArtifact
           /\ result = "artifact" => artifact.Events = events
    /\ Returned => Len(artifact.Events) > 0
    /\ tick >= 1 => Len(events) > 0

\* A returned artifact whose event list holds events of all four types.
C21_Witness ==
    /\ Returned
    /\ Len(artifact.Events) > TickCount
    /\ \A type \in {EventQueue, EventSchedule, EventComplete, EventReject} :
           \E k \in 1..Len(artifact.Events) : artifact.Events[k].Type = type

\* ------------------------------------------------------------------ C22

\* The queued tokens of a class above the given one.
QueuedAbove(class) ==
    {q \in Tokens : tokens[q].State = StateQueued /\ Rank(tokens[q].Class) > Rank(class)}

\* C22: starvation is possible, there is no aging.  In every scheduling
\* phase, a queued request is left in its queue whenever the queued
\* requests of higher classes are at least as many as the free service
\* slots, however long it has waited; this can repeat tick after tick.
C22_Starvation ==
    [][pc = "schedule" =>
          \A p \in Tokens :
              (/\ tokens[p].State = StateQueued
               /\ Cardinality(QueuedAbove(tokens[p].Class)) >= 3 - Len(inService))
                  => /\ tokens'[p].State = StateQueued
                     /\ \E k \in 1..Len(AllQueues') : AllQueues'[k] = p]_vars

\* An ANON request that has been queued through six scheduling phases,
\* while requests of higher classes that arrived after it were served.
C22_Witness ==
    /\ pc = "snapshot"
    /\ \E p \in Tokens :
           /\ tokens[p].Class = ClassAnon
           /\ tokens[p].State = StateQueued
           /\ tokens[p].ArrivalTick + 5 <= tick
           /\ \E q \in Tokens :
                  /\ Rank(tokens[q].Class) > 1
                  /\ tokens[q].ArrivalTick > tokens[p].ArrivalTick + 3
                  /\ tokens[q].State \in {StateProcessing, StateDone}

\* ------------------------------------------------------------------ C25

\* The events of token p, in trace order.
TokenEvents(p) == SelectSeq(events, LAMBDA e : e.TokenID = tokens[p].ID)

\* Token p has a SCHEDULE event at tick t.
ScheduledAt(p, t) ==
    \E k \in 1..Len(events) :
        /\ events[k].TokenID = tokens[p].ID
        /\ events[k].Type = EventSchedule
        /\ events[k].Tick = t

\* C25: service timing.  A scheduled token gets service_remaining = 1 and
\* the completion phase of the next tick takes it to 0 and completes it:
\* a SCHEDULE event at a tick t before the last one is followed by the
\* token's COMPLETE event at tick t + 1; a token that is processing in
\* snapshot t was scheduled at tick t and shows service_remaining = 1,
\* every other token shows 0; service_remaining is never negative.
C25_ServiceTiming ==
    /\ \A p \in Tokens : tokens[p].ServiceRemaining >= 0
    /\ pc = "snapshot" => \A k \in 1..Len(inService) :
                             tokens[inService[k]].ServiceRemaining = 1
    /\ pc = "arrivals" => inService = <<>>
    /\ HasSnapshot =>
           \A p \in 1..Len(LastSnapshot.Tokens) :
               IF LastSnapshot.Tokens[p].State = StateProcessing
               THEN /\ LastSnapshot.Tokens[p].ServiceRemaining = 1
                    /\ ScheduledAt(p, LastSnapshot.Tick)
               ELSE LastSnapshot.Tokens[p].ServiceRemaining = 0
    /\ Returned =>
           \A p \in Tokens :
               LET ev == TokenEvents(p)
               IN  \A i \in 1..Len(ev) :
                       ev[i].Type = EventSchedule =>
                           IF ev[i].Tick < TickCount - 1
                           THEN /\ i < Len(ev)
                                /\ ev[i + 1].Type = EventComplete
                                /\ ev[i + 1].Tick = ev[i].Tick + 1
                           ELSE i = Len(ev)

\* A returned run in which a request waited in the queue, was scheduled
\* and completed one tick later, and whose last snapshot shows a request
\* in service.
C25_Witness ==
    /\ Returned
    /\ SnapshotCount(LastSnapshot, StateProcessing) > 0
    /\ \E p \in Tokens :
           LET ev == TokenEvents(p)
           IN  /\ Len(ev) = 3
               /\ ev[1].Tick + 2 < ev[2].Tick
               /\ ev[2].Type = EventSchedule
               /\ ev[3].Type = EventComplete
               /\ ev[3].Tick = ev[2].Tick + 1

\* ------------------------------------------------------------------ C26

\* The types of a sequence of events.
RECURSIVE TypesOf(_)
TypesOf(ev) == IF ev = <<>> THEN <<>> ELSE <<Head(ev).Type>> \o TypesOf(Tail(ev))

\* The fixed pairing of an event's type with its reason code and stage.
Paired(e) ==
    \/ e.Type = EventQueue /\ e.ReasonCode = ReasonQueueAdmission /\ e.StageID = StageQueue
    \/ e.Type = EventReject /\ e.ReasonCode = ReasonRejectOverload
           /\ e.StageID = StageRejected
    \/ e.Type = EventSchedule /\ e.ReasonCode = ReasonPrioritySchedule
           /\ e.StageID = StageService
    \/ e.Type = EventComplete /\ e.ReasonCode = ReasonServiceComplete
           /\ e.StageID = StageDone

\* The chain of one token's events.
EventChain(p) ==
    LET ev == TokenEvents(p)
    IN  /\ TypesOf(ev) \in {<<EventReject>>, <<EventQueue>>,
                             <<EventQueue, EventSchedule>>,
                             <<EventQueue, EventSchedule, EventComplete>>}
        /\ ev[1].Tick = tokens[p].ArrivalTick
        /\ Len(ev) >= 2 => ev[1].Tick <= ev[2].Tick
        /\ Len(ev) >= 3 => ev[2].Tick < ev[3].Tick
        /\ \A i \in 1..Len(ev) : ev[i].Class = tokens[p].Class /\ Paired(ev[i])

\* C26: the events of any single token, in trace order, are exactly
\* [REJECT] or a non-empty prefix of [QUEUE, SCHEDULE, COMPLETE]; the first
\* one is at the token's arrival tick, no kind occurs twice, the ticks
\* satisfy QUEUE <= SCHEDULE < COMPLETE, and each event carries the token's
\* class, which never changes, and the fixed pairing of type, reason and
\* stage.  Every event belongs to a token.
C26_EventChain ==
    /\ Len(events) > 0 =>
           /\ Paired(events[Len(events)])
           /\ \E p \in Tokens :
                  /\ tokens[p].ID = events[Len(events)].TokenID
                  /\ tokens[p].Class = events[Len(events)].Class
    /\ HasSnapshot =>
           \A p \in 1..Len(LastSnapshot.Tokens) :
               LastSnapshot.Tokens[p].Class = tokens[p].Class
    /\ pc \in {"loop", "returned"} => \A p \in Tokens : EventChain(p)

\* A returned trace with a rejected token, a token still in service and
\* completed tokens, one of them an ANON request that waited in the queue.
C26_Witness ==
    /\ Returned
    /\ \A types \in {<<EventReject>>, <<EventQueue, EventSchedule>>,
                      <<EventQueue, EventSchedule, EventComplete>>} :
           \E p \in Tokens : TypesOf(TokenEvents(p)) = types
    /\ \E p \in Tokens :
           LET ev == TokenEvents(p)
           IN  Len(ev) = 3 /\ ev[1].Tick < ev[2].Tick /\ tokens[p].Class = ClassAnon

\* ------------------------------------------------------------------ C27

\* The state and stage an event leaves its token in.
ImpliedState(type) ==
    CASE type = EventQueue -> [State |-> StateQueued, StageID |-> StageQueue]
      [] type = EventSchedule -> [State |-> StateProcessing, StageID |-> StageService]
      [] type = EventComplete -> [State |-> StateDone, StageID |-> StageDone]
      [] type = EventReject -> [State |-> StateRejected, StageID |-> StageRejected]

\* Of a token's events ev, the number of those with a tick up to t: the
\* position of the last one, since the ticks do not decrease.
EventsUpTo(ev, t) == Cardinality({i \in 1..Len(ev) : ev[i].Tick <= t})

\* Snapshot i shows token p as its last event up to the snapshot's tick
\* left it.
SnapshotAgrees(i, p, ev) ==
    LET n == EventsUpTo(ev, snapshots[i].Tick)
    IN  /\ n > 0
        /\ snapshots[i].Tokens[p].ID = ev[n].TokenID
        /\ snapshots[i].Tokens[p].State = ImpliedState(ev[n].Type).State
        /\ snapshots[i].Tokens[p].StageID = ImpliedState(ev[n].Type).StageID

\* C27: snapshots and events describe the same history.  For every token
\* and every tick t at or after its arrival, the token's state and
\* stage_id in snapshot t are those implied by its last event with tick
\* <= t: QUEUE -> queued/queue, SCHEDULE -> processing/service,
\* COMPLETE -> done/done, REJECT -> rejected/rejected.
C27_SnapshotsMatchEvents ==
    /\ pc = "loop" /\ HasSnapshot =>
           \A p \in Tokens : SnapshotAgrees(Len(snapshots), p, TokenEvents(p))
    /\ Returned =>
           \A p \in Tokens :
               LET ev == TokenEvents(p)
               IN  \A i \in (tokens[p].ArrivalTick + 1)..Len(snapshots) :
                       SnapshotAgrees(i, p, ev)

\* A returned run with a token that its snapshots show queued, then
\* processing, then done, at the ticks of its three events.
C27_Witness ==
    /\ Returned
    /\ \E p \in Tokens :
           LET ev == TokenEvents(p)
           IN  /\ Len(ev) = 3
               /\ ev[1].Tick < ev[2].Tick
               /\ snapshots[ev[1].Tick + 1].Tokens[p].State = StateQueued
               /\ snapshots[ev[2].Tick + 1].Tokens[p].State = StateProcessing
               /\ snapshots[ev[3].Tick + 1].Tokens[p].StageID = StageDone
    /\ \E p \in Tokens : LastSnapshot.Tokens[p].State = StateRejected

\* ------------------------------------------------------------------ C28

\* A snapshot's stages as a projection of its token listing.
StagesProject(snap) ==
    /\ Len(snap.Stages) = 4
    /\ snap.Stages[1].ID = "queue"
    /\ snap.Stages[2].ID = "service"
    /\ snap.Stages[3].ID = "done"
    /\ snap.Stages[4].ID = "rejected"
    /\ snap.Stages[1].QueueLength = SnapshotCount(snap, StateQueued)
    /\ snap.Stages[2].CapacityUsed = SnapshotCount(snap, StateProcessing)
    /\ \A k \in {3, 4} :
           /\ snap.Stages[k].QueueLength = 0
           /\ snap.Stages[k].CapacityUsed = 0
           /\ snap.Stages[k].CapacityTotal = 0

\* C28: stage aggregates are a projection of the token listing.  In every
\* snapshot the stages are reported in the order queue, service, done,
\* rejected; the queue stage's queue_length is the number of tokens in
\* state queued, the service stage's capacity_used the number of tokens in
\* state processing, and the done and rejected stages report 0 for every
\* counter, however many tokens are done or rejected.
C28_StageAggregates ==
    /\ HasSnapshot => StagesProject(LastSnapshot)
    /\ Returned => \A i \in 1..Len(snapshots) : StagesProject(snapshots[i])

\* A snapshot with queued, processing, done and rejected tokens: the
\* done and rejected stages still report zeros.
C28_Witness ==
    /\ HasSnapshot
    /\ pc = "loop"
    /\ SnapshotCount(LastSnapshot, StateQueued) >= 12
    /\ SnapshotCount(LastSnapshot, StateProcessing) = 3
    /\ SnapshotCount(LastSnapshot, StateDone) >= 2
    /\ SnapshotCount(LastSnapshot, StateRejected) >= 2
    /\ LastSnapshot.Stages[3].QueueLength = 0
    /\ LastSnapshot.Stages[4].QueueLength = 0
    /\ LastSnapshot.Stages[1].QueueLength >= 12

\* ------------------------------------------------------------------ C29

\* The arrival schedule by tick ranges: 1, 2, 4, 3, 1 arrivals per tick.
ScheduledArrivals(t) ==
    CASE t \in 0..(RateStep1 - 1) -> 1
      [] t \in RateStep1..(RateStep2 - 1) -> 2
      [] t \in RateStep2..(RateStep3 - 1) -> 4
      [] t \in RateStep3..(RateStep4 - 1) -> 3
      [] t \in RateStep4..(TickCount - 1) -> 1

\* The tokens created at tick t, and up to tick t.
CreatedAt(t) == {p \in Tokens : tokens[p].ArrivalTick = t}
CreatedUpTo(t) == {p \in Tokens : tokens[p].ArrivalTick <= t}

\* C29: arrival schedule and identity.  At each tick t exactly
\* arrivalCount(t) tokens are created, whatever the seed: 1, 2, 4, 3 and 1
\* per tick over the five tick ranges of the scenario.  Identifiers come
\* from a counter that starts at 0 and grows by one per created token,
\* rejected ones included, so they are unique, and snapshot t lists exactly
\* the tokens created at ticks <= t, in creation order.
C29_ArrivalSchedule ==
    /\ nextID = Len(tokens)
    /\ Len(tokens) > 0 =>
           LET new == tokens[Len(tokens)]
           IN  /\ new.ID = FormatID(Len(tokens) - 1)
               /\ \A p \in 1..(Len(tokens) - 1) :
                      /\ tokens[p].ID # new.ID
                      /\ tokens[p].ArrivalTick <= new.ArrivalTick
    /\ Returned =>
           /\ \A p \in Tokens : tokens[p].ID = FormatID(p - 1)
           /\ \A p, q \in Tokens :
                  /\ p # q => tokens[p].ID # tokens[q].ID
                  /\ p < q => tokens[p].ArrivalTick <= tokens[q].ArrivalTick
    /\ pc \in {"schedule", "snapshot"} =>
           Cardinality(CreatedAt(tick)) = ScheduledArrivals(tick)
    /\ pc \in {"loop", "returned"} =>
           \A t \in 0..(tick - 1) : Cardinality(CreatedAt(t)) = ScheduledArrivals(t)
    /\ HasSnapshot =>
           /\ Len(LastSnapshot.Tokens) = Cardinality(CreatedUpTo(LastSnapshot.Tick))
           /\ \A p \in 1..Len(LastSnapshot.Tokens) :
                  LastSnapshot.Tokens[p].ID = tokens[p].ID
    /\ Returned =>
           \A i \in 1..Len(snapshots) :
               /\ Len(snapshots[i].Tokens) = Cardinality(CreatedUpTo(i - 1))
               /\ \A p \in 1..Len(snapshots[i].Tokens) :
                      snapshots[i].Tokens[p].ID = tokens[p].ID

\* A returned run that went through all five rates, with rejected tokens
\* between admitted ones in the identifier sequence.
C29_Witness ==
    /\ Returned
    /\ \A n \in {1, 2, 3, 4} : \E t \in 0..(TickCount - 1) : Cardinality(CreatedAt(t)) = n
    /\ Cardinality(CreatedAt(TickCount - 1)) = 1
    /\ \E p \in Tokens :
           /\ tokens[p].State = StateRejected
           /\ p < Len(tokens)
           /\ tokens[p + 1].State = StateDone
           /\ tokens[p + 1].ID = FormatID(p)

\* ------------------------------------------------------------------ C30

\* The ticks of the arrival-class override (150..190 in the scenario).
InOverrideWindow(t) == t \in OverrideFrom..OverrideTo

\* After a tick's arrivals in the override window, the first token
\* created at the tick is PAID and the second is FREE.
FirstTwoForced ==
    pc = "schedule" /\ InOverrideWindow(tick) =>
        LET first == Len(tokens) - Cardinality(CreatedAt(tick)) + 1
        IN  /\ Cardinality(CreatedAt(tick)) >= 2
            /\ tokens[first].ArrivalTick = tick
            /\ tokens[first].Class = ClassPaid
            /\ tokens[first + 1].Class = ClassFree

\* C30: arrival-class override.  In every tick of the override window and
\* for every seed, the first token created is PAID and the second FREE; at
\* all other ticks the classes come from sampling alone.  The override is
\* applied after the tick's classes have been sampled: each tick draws
\* exactly arrivalCount(t) pseudo-random numbers, draws happen nowhere
\* else, and the k-th arrival that is not overridden has the class of the
\* k-th draw.
C30_ClassOverride ==
    [][/\ pc = "arrivals" =>
            LET n == Len(classes')
            IN  /\ n = ScheduledArrivals(tick)
                /\ rng' = RngAfter(rng, n)
                /\ \A m \in 0..(n - 1) : rng' # RngAfter(rng, m)
                /\ \A k \in 1..n :
                       classes'[k] =
                           IF InOverrideWindow(tick) /\ k = 1 THEN ClassPaid
                           ELSE IF InOverrideWindow(tick) /\ k = 2 THEN ClassFree
                           ELSE pickClass(RngAfter(rng, k))
       /\ pc \notin {"arrivals", "Run"} => rng' = rng
       /\ pc = "admit" /\ classes # <<>> =>
            /\ Len(tokens') = Len(tokens) + 1
            /\ tokens'[Len(tokens')].Class = Head(classes)
       /\ FirstTwoForced']_vars

\* A tick of the override window with four arrivals about to be admitted:
\* PAID and FREE forced, the other two sampled; and an earlier tick with
\* two arrivals outside the window, whose first token was sampled as ANON.
C30_Witness ==
    /\ pc = "admit"
    /\ InOverrideWindow(tick)
    /\ Len(classes) = 4
    /\ classes[1] = ClassPaid
    /\ classes[2] = ClassFree
    /\ classes[3] = ClassAnon
    /\ classes[4] = ClassPaid
    /\ \E p \in Tokens :
           /\ p < Len(tokens)
           /\ tokens[p].ArrivalTick = tokens[p + 1].ArrivalTick
           /\ ~InOverrideWindow(tokens[p].ArrivalTick)
           /\ tokens[p].Class = ClassAnon
           /\ (p = 1 \/ tokens[p - 1].ArrivalTick < tokens[p].ArrivalTick)

\* ------------------------------------------------------------------ C24

\* The process has exited.
Exited == pc = "exited"

\* The artifact Run returned is on disk, whole, at the -out path, and the
\* path's directory exists.
ArtifactWritten ==
    /\ [path |-> flags.out, complete |-> TRUE, artifact |-> artifact] \in files
    /\ \A f \in files : f.path = flags.out => f.complete
    /\ Dir(flags.out) # "." => Dir(flags.out) \in dirs

\* C24: the command-line program.  When Run returns an error the program
\* writes it to stderr and exits non-zero, and no directory and no file has
\* been created at that point or at any point before it; it exits 0 only
\* with the artifact written whole to the output path; a failure of
\* MkdirAll or of WriteArtifact is reported on stderr and exits non-zero.
C24_ExitCodes ==
    /\ pc \notin {"WriteArtifact", "exited"} => dirs = {} /\ files = {}
    /\ result = "error" => dirs = {} /\ files = {} /\ stdout = <<>>
    /\ Exited /\ result = "error" => exitCode # 0 /\ stderr = <<"Run">>
    /\ Exited /\ exitCode = 0 =>
           /\ result = "artifact"
           /\ ArtifactWritten
           /\ stderr = <<>>
           /\ stdout = <<[wrote |-> flags.out, replay_id |-> artifact.Metadata.ReplayID]>>
    /\ Exited /\ exitCode # 0 => Len(stderr) = 1 /\ stdout = <<>>
    /\ Exited /\ stderr # <<>> => exitCode # 0
    /\ Exited /\ ~ArtifactWritten => exitCode # 0
    /\ pc = "WriteArtifact" => result = "artifact" /\ stderr = <<>> /\ files = {}
    /\ ~Exited => stderr = <<>> /\ stdout = <<>>

\* The program has exited after Run refused the scenario: status 1, the
\* error on stderr, nothing on disk.
C24_Witness ==
    /\ Exited
    /\ result = "error"
    /\ flags.out = "out/a/run.json"
    /\ exitCode = 1
    /\ stderr = <<"Run">>

\* ------------------------------------------------------------------ C23

\* The engine_version a JSON document carries, "" if it carries none.
VersionOf(data) ==
    IF isRecord(data) /\ isRecord(Get(data, "metadata"))
          /\ isString(Get(Get(data, "metadata"), "engine_version"))
    THEN Get(Get(data, "metadata"), "engine_version").value
    ELSE ""

\* A JSON document that carries an engine_version, with the UI's version
\* in its place.
MatchingVersion(data) ==
    [data EXCEPT !.fields.metadata.fields.engine_version = Str(UI_ENGINE_VERSION)]

\* An artifact with its engine_version replaced.
WithVersion(a, version) ==
    [a EXCEPT !.metadata = [a.metadata EXCEPT !.engine_version = version]]

\* C23: an engine_version other than the UI's is advisory.  Whenever the
\* read of a file resolves whose artifact is valid and carries a non-empty
\* engine_version other than "0.1.0", loadSlotData decides as it would for
\* the same artifact with version "0.1.0"; when it accepts, the slot holds
\* the artifact with its own version, the slot's error is cleared, the
\* slot is active, playback is reset, the other slot is untouched, and the
\* only difference the version makes is the 'Version mismatch' badge.
C23_VersionAdvisory ==
    [][\A r \in reading :
          /\ pc = "ui"
          /\ reading' = reading \ {r}
          /\ JSONparse(r.file).ok
          /\ VersionOf(JSONparse(r.file).value) \notin {"", UI_ENGINE_VERSION}
          =>
          LET data == JSONparse(r.file).value
              twin == loadSlotData(r.slot, MatchingVersion(data), r.gate)
              other == IF r.slot = "baseline" THEN "pressure" ELSE "baseline"
          IN  /\ loadSlotData(r.slot, data, r.gate).ok = twin.ok
              /\ parseArtifact(data).ok = parseArtifact(MatchingVersion(data)).ok
              /\ twin.ok =>
                    /\ slotArtifact(r.slot)' = WithVersion(twin.artifact, VersionOf(data))
                    /\ slotError(r.slot)' = null
                    /\ activeSlot' = r.slot
                    /\ loadError' = null
                    /\ versionMismatch'
                    /\ currentTick' = 0
                    /\ ~isPlaying'
                    /\ tickCount' = twin.artifact.metadata.tick_count
                    /\ slotArtifact(other)' = slotArtifact(other)
                    /\ slotError(other)' = slotError(other)
              /\ ~twin.ok =>
                    /\ slotError(r.slot)' = String(twin.error)
                    /\ UNCHANGED <<baselineArtifact, pressureArtifact, activeSlot,
                                   playbackState>>
                    /\ slotError(other)' = slotError(other)]_vars

\* The pressure slot is active and holds the artifact of version 0.2.0,
\* loaded without an error and showing the badge, next to the same
\* artifact of version 0.1.0 in the baseline slot.
C23_Witness ==
    /\ pc = "ui"
    /\ activeSlot = "pressure"
    /\ pressureArtifact # null
    /\ pressureArtifact.metadata.engine_version = "0.2.0"
    /\ baselineArtifact # null
    /\ pressureArtifact = WithVersion(baselineArtifact, "0.2.0")
    /\ ~(baselineArtifact = pressureArtifact)
    /\ versionMismatch
    /\ loadError = null
    /\ currentTick = 0
    /\ ~isPlaying
    /\ reading = {}

\* ------------------------------------------------------------------ C31

\* Run was given the canonical scenario, by name or by default.
CanonicalRun == DefaultScenario(config.ScenarioID) = ScenarioID

\* C31: termination.  A run of the canonical scenario (scenario id "" or
\* "canonical_v1", any seed) enters step with tick = 0, 1, ..., TickCount - 1
\* once each, in this order, and then returns an artifact; it never
\* returns the 'no events produced' error, because tick 0 creates one token
\* and records its admission event.
C31_Termination ==
    /\ (pc = "Run" /\ CanonicalRun) ~> (Returned /\ tick = TickCount)
    /\ [][/\ tick' = tick \/ (pc = "snapshot" /\ tick' = tick + 1)
          /\ pc = "loop" /\ pc' # "returned" => tick = Len(snapshots) /\ tick < TickCount
          /\ pc = "loop" /\ pc' = "returned" => tick = TickCount]_vars
    /\ [](CanonicalRun /\ pc = "returned" =>
             /\ result = "artifact"
             /\ \A t \in 0..(TickCount - 1) :
                    Cardinality({i \in 1..Len(snapshots) : snapshots[i].Tick = t}) = 1)
    /\ [](CanonicalRun /\ tick = 0 /\ pc = "schedule" =>
             /\ Len(tokens) = 1
             /\ Len(events) = 1
             /\ events[1].Type = EventQueue
             /\ events[1].Tick = 0
             /\ events[1].TokenID = tokens[1].ID)
    /\ [](CanonicalRun /\ tick >= 1 => events # <<>> /\ events[1].Type = EventQueue)

\* A run that was given the empty scenario id has gone through all its
\* ticks and returned an artifact whose first event is the admission of
\* the token of tick 0.
C31_Witness ==
    /\ Returned
    /\ config.ScenarioID = ""
    /\ tick = TickCount
    /\ artifact.Events[1].Type = EventQueue
    /\ artifact.Events[1].Tick = 0
    /\ artifact.Snapshots[TickCount].Tick = TickCount - 1

\* ------------------------------------------------------------------ C34

\* The queued tokens of a class.
QueuedOf(class) ==
    {p \in Tokens : tokens[p].State = StateQueued /\ tokens[p].Class = class}

\* C34: backpressure bounds only the lowest class.  At every point of a
\* run at most 12 ANON requests are queued, because an ANON request is
\* queued only when the three queues together hold fewer than 12; PAID and
\* FREE arrivals are queued whatever the combined length, which therefore
\* is not bounded by the threshold.
C34_AnonBounded ==
    /\ [](/\ Len(anonQueue) <= 12
          /\ Cardinality(QueuedOf(ClassAnon)) <= 12
          /\ HasSnapshot =>
                Cardinality({k \in 1..Len(LastSnapshot.Tokens) :
                                /\ LastSnapshot.Tokens[k].State = StateQueued
                                /\ LastSnapshot.Tokens[k].Class = ClassAnon}) <= 12)
    /\ [][pc = "admit" /\ classes # <<>> =>
             /\ Head(classes) = ClassAnon /\ Len(anonQueue') > Len(anonQueue)
                    => QueueLength < 12
             /\ Head(classes) # ClassAnon
                    => /\ QueueLength' = QueueLength + 1
                       /\ tokens'[Len(tokens')].State = StateQueued]_vars

\* The three queues together hold more than 12 requests, a PAID or FREE
\* request having just been queued at a combined length of 12 or more,
\* while ANON requests are queued too.
C34_Witness ==
    /\ pc = "admit"
    /\ QueueLength > 12
    /\ anonQueue # <<>>
    /\ Len(anonQueue) <= 12
    /\ tokens[Len(tokens)].Class # ClassAnon
    /\ tokens[Len(tokens)].State = StateQueued
    /\ tokens[Len(tokens)].ArrivalTick = tick

\* ------------------------------------------------------------------ C35

\* The positions, in a snapshot's listing, of the tokens in a state.
ListedIn(snap, state) == {k \in 1..Len(snap.Tokens) : snap.Tokens[k].State = state}

\* C35: the canonical run drains.  For every seed, when Run returns every
\* admitted request has been scheduled; in the final snapshot (tick
\* TickCount - 1) queue_length is 0, exactly one token is processing, the
\* one that arrived at that tick, and every token that arrived before it
\* is done or rejected.
C35_Drains ==
    Returned =>
        LET final == artifact.Snapshots[Len(artifact.Snapshots)]
        IN  /\ final.Tick = TickCount - 1
            /\ final.Stages[1].ID = StageQueue
            /\ final.Stages[1].QueueLength = 0
            /\ ListedIn(final, StateQueued) = {}
            /\ ListedIn(final, StateProcessing) = {Len(tokens)}
            /\ final.Stages[2].CapacityUsed = 1
            /\ Len(final.Tokens) = Len(tokens)
            /\ \A p \in Tokens :
                   /\ tokens[p].ArrivalTick = TickCount - 1 <=> p = Len(tokens)
                   /\ tokens[p].ArrivalTick < TickCount - 1 =>
                          final.Tokens[p].State \in {StateDone, StateRejected}
                   /\ EventPos(p, EventQueue) # 0 =>
                          /\ EventPos(p, EventSchedule) # 0
                          /\ artifact.Events[EventPos(p, EventSchedule)].Tick <= TickCount - 1

\* A returned run that had a backlog: some request waited in the queue
\* for more than five ticks and some were rejected, and the final snapshot
\* shows an empty queue and the last arrival in service.
C35_Witness ==
    /\ Returned
    /\ LastSnapshot.Stages[1].QueueLength = 0
    /\ LastSnapshot.Tokens[Len(tokens)].State = StateProcessing
    /\ ListedIn(LastSnapshot, StateRejected) # {}
    /\ \E p \in Tokens :
           /\ EventPos(p, EventSchedule) # 0
           /\ events[EventPos(p, EventSchedule)].Tick > tokens[p].ArrivalTick + 5

\* ------------------------------------------------------------------ C33

\* C33: distinct (scenario id, seed, engine version) triples yield
\* distinct replay identifiers: the string that is hashed differs for any
\* two different triples, also when a scenario id or a version contains
\* the character "|".
C33_DistinctTriplesDistinctIds ==
    Len(replayed) = 2 /\ replayed[1].args # replayed[2].args =>
        /\ ReplaySource(replayed[1].args.scenarioID, replayed[1].args.seed,
                        replayed[1].args.version)
              # ReplaySource(replayed[2].args.scenarioID, replayed[2].args.seed,
                             replayed[2].args.version)
        /\ replayed[1].id # replayed[2].id
\* ------------------------------------------------------------------ C32

\* The two invocations of Run that execute at the same time.
Invocations == IF parked = NoRun THEN {} ELSE {Invocation, parked}

\* The result of the call of Run that was executed alone.
Alone == history[1]

\* a begins b.
Begins(a, b) == Len(a) <= Len(b) /\ SubSeq(b, 1, Len(a)) = a

\* C32: run isolation.  Of two invocations of Run whose ticks are
\* interleaved in any order, each returns exactly the result the same
\* configuration returned when Run was executed alone: the same error or
\* the same metadata, snapshots and events; and after each of its ticks an
\* invocation has recorded the snapshots and events the run alone had
\* recorded after that tick.
C32_RunIsolation ==
    \A r \in Invocations :
        r.config = Alone.Config =>
            /\ r.pc = "returned" =>
                  /\ r.result = Alone.Result
                  /\ r.artifact = Alone.Artifact
            /\ r.pc = "loop" =>
                  /\ Len(r.snapshots) = r.tick
                  /\ Begins(r.snapshots, Alone.Artifact.Snapshots)
                  /\ Begins(r.events, Alone.Artifact.Events)

\* An invocation has returned the artifact of the run alone while the other
\* invocation, with another seed, is in the middle of its ticks.
C32_Witness ==
    /\ parked # NoRun
    /\ parked.pc = "returned"
    /\ parked.config = Alone.Config
    /\ parked.result = "artifact"
    /\ parked.artifact = Alone.Artifact
    /\ Len(parked.artifact.Snapshots) = TickCount
    /\ pc = "loop"
    /\ tick > 0
    /\ tick < TickCount
    /\ config.Seed # parked.config.Seed

\* ------------------------------------------------------------------ C37

\* The load r is the one that completes in this step.
Completes(r) == r \in reading /\ reading' = reading \ {r}

\* The load r fails: the text is no JSON, or loadSlotData refuses it.
LoadFails(r) ==
    \/ ~JSONparse(r.file).ok
    \/ ~loadSlotData(r.slot, JSONparse(r.file).value, r.gate).ok

OtherSlot(slot) == IF slot = "baseline" THEN "pressure" ELSE "baseline"

\* C37: a failed artifact load (unparseable JSON, a validation failure of
\* parseArtifact, a scenario mismatch) changes only the error message of
\* the slot being loaded: both slots' artifacts and the active slot stay,
\* and the slot-change callback is not invoked (selection, inspector and
\* playback stay).  A successful load stores the artifact in that slot,
\* clears that slot's error and makes that slot active.
C37_FailedLoadFrame ==
    [][\A r \in reading : Completes(r) =>
          IF LoadFails(r)
          THEN /\ slotError(r.slot)' # null
               /\ slotError(OtherSlot(r.slot))' = slotError(OtherSlot(r.slot))
               /\ baselineArtifact' = baselineArtifact
               /\ pressureArtifact' = pressureArtifact
               /\ activeSlot' = activeSlot
               /\ selectedTokenId' = selectedTokenId
               /\ inspectorEnabled' = inspectorEnabled
               /\ playbackState' = playbackState
          ELSE /\ slotArtifact(r.slot)' =
                      loadSlotData(r.slot, JSONparse(r.file).value, r.gate).artifact
               /\ slotError(r.slot)' = null
               /\ activeSlot' = r.slot]_vars

\* A slot that holds an artifact, is active and is being played shows the
\* error of a later load into it that failed.
C37_Witness ==
    /\ baselineArtifact # null
    /\ activeSlot = "baseline"
    /\ baselineError \in {String("Unable to parse artifact JSON."),
                          String("Scenario mismatch. MVP supports one scenario only.")}
    /\ isPlaying

\* ------------------------------------------------------------------ C38

\* C38: playback bounds.  With an artifact of tick_count >= 1 loaded,
\* currentTick stays in 0 .. tick_count - 1 whatever timer firings, play
\* and pause toggles and scrubs happen; while playing, a timer firing
\* advances currentTick by exactly 1, except that at the last tick it
\* leaves currentTick as it is and stops the playback.
C38_PlaybackBounds ==
    /\ [](activeArtifact # null /\ activeArtifact.metadata.tick_count >= 1 =>
             /\ currentTick >= 0
             /\ currentTick <= activeArtifact.metadata.tick_count - 1)
    /\ [][timerFired =>
             IF currentTick = activeArtifact.metadata.tick_count - 1
             THEN currentTick' = currentTick /\ ~isPlaying'
             ELSE currentTick' = currentTick + 1 /\ isPlaying']_vars

\* The playback has advanced to the last tick of an artifact with more than
\* one tick and is still playing: the next firing stops it.
C38_Witness ==
    /\ activeArtifact # null
    /\ activeArtifact.metadata.tick_count > 1
    /\ currentTick = activeArtifact.metadata.tick_count - 1
    /\ isPlaying

\* ------------------------------------------------------------------ C39

\* C39: playback reset.  Whenever the active artifact changes (a
\* successful load, a reload into the active slot included) or the active
\* slot changes to another slot, the playback is reset to currentTick = 0
\* and isPlaying = false.
C39_PlaybackReset ==
    [][(\/ activeArtifact' # activeArtifact
        \/ activeSlot' # activeSlot
        \/ \E r \in reading : Completes(r) /\ ~LoadFails(r))
       => currentTick' = 0 /\ ~isPlaying']_vars

\* After a successful and a failed load into the baseline slot the empty
\* pressure slot is active: the user switched slots, and the playback is
\* reset.
C39_Witness ==
    /\ chosen = MaxChosen
    /\ reading = {}
    /\ baselineArtifact # null
    /\ pressureArtifact = null
    /\ baselineError # null
    /\ activeSlot = "pressure"
    /\ currentTick = 0
    /\ ~isPlaying

\* ------------------------------------------------------------------ C36

\* C36: UI single-scenario gate.  At any time, if both the baseline slot
\* and the pressure slot hold an artifact, the two artifacts have the same
\* metadata.scenario_id, in whatever order loads that are in flight at the
\* same time complete.
C36_SingleScenario ==
    baselineArtifact # null /\ pressureArtifact # null =>
        baselineArtifact.metadata.scenario_id = pressureArtifact.metadata.scenario_id

====
